---- MODULE Spec2Model ----
(***************************************************************************)
(* Companies House MCP gateway: the JSON-RPC dispatchers of the three      *)
(* servers (stdio, HTTP facade, Streamable HTTP) and the two stdio-to-HTTP *)
(* bridge clients (simple-http-bridge.js, streamable-http-bridge.js) with  *)
(* their retry/backoff loop and their shutdown timer.                      *)
(*                                                                         *)
(* One behaviour of the model is one run of one process: Init picks the    *)
(* process that was launched (mode) and, for a bridge, its environment     *)
(* configuration.  An HTTP round trip takes any time, so replies, timers   *)
(* and input interleave freely, with one exception that the timers' order  *)
(* fixes: a backoff sleep that starts after the shutdown timer was set and *)
(* lasts at least as long cannot end before the process exits (held).      *)
(***************************************************************************)
EXTENDS Integers, Sequences, FiniteSets, TLC

\* ------------------------------------------------------------------ bounds
\* Number of stdin lines (bridges) or client messages (servers) in one run.
MaxLines == 2
\* Largest MCP_MAX_RETRY_ATTEMPTS the environment sets.
MaxRetry == 2
\* An MCP_RECONNECT_DELAY shorter than the REST bridge's shutdown grace (ms).
ShortDelay == 40
\* How far below zero an MCP_MAX_RETRY_ATTEMPTS of the environment goes.
MaxNegative == 1
\* An MCP_HTTP_TIMEOUT the environment sets (ms).
LongTimeout == 10000

\* --------------------------------------------------------- program constants
MethodNotFound == -32601
InternalError == -32603
DEFAULT_RECONNECT_DELAY == 2000
REST_EXIT_DELAY == 100
STREAMABLE_EXIT_DELAY == 1000
HTTP_TIMEOUT == 5000

\* ------------------------------------------------------------------ state
VARIABLES
  mode,                \* the process that runs
  MAX_RETRY_ATTEMPTS,  \* bridge configuration (MCP_MAX_RETRY_ATTEMPTS)
  RECONNECT_DELAY,     \* bridge configuration (MCP_RECONNECT_DELAY), ms
  retryCount,          \* the bridge's module-level retry counter
  closed,              \* the readline interface is closed
  exitTimer,           \* the shutdown timer: NoTimer, or <<its delay in ms>>
  exited,              \* the process has ended
  exitCode,            \* its exit status
  tasks,               \* one entry per line or message taken, in arrival order
  stdout,              \* the lines written to standard output, in order
  replies,             \* the HTTP replies a server has sent, in order
  stderrWritten,       \* something has been written to standard error
  apiKey,              \* COMPANIES_HOUSE_API_KEY: "absent", "empty" or "set"
  listening,           \* the server is constructed and takes requests
  MCP_HTTP_TIMEOUT     \* the environment's MCP_HTTP_TIMEOUT: Unset, or <<ms>>

vars == <<mode, MAX_RETRY_ATTEMPTS, RECONNECT_DELAY, retryCount, closed, exitTimer,
          exited, exitCode, tasks, stdout, replies, stderrWritten, apiKey, listening,
          MCP_HTTP_TIMEOUT>>

config == <<mode, MAX_RETRY_ATTEMPTS, RECONNECT_DELAY, apiKey, MCP_HTTP_TIMEOUT>>

\* ------------------------------------------------------------------ values
\* A JSON-RPC id is a string or a number, here the pair <<"id", k>>; Null is
\* the JSON null a bridge sends when it has no request to take the id from,
\* Undefined the value of a property the message does not have.
Null == <<"null">>
Undefined == <<"undefined">>
\* An environment variable that is not set.
Unset == <<>>
\* The value of a string property the message does not have.
NoValue == "undefined"

BridgeModes == {"rest-bridge", "streamable-bridge"}
ServerModes == {"stdio", "streamable"}
\* The HTTP facade (REST-shaped routes), served directly.
FacadeModes == {"http"}
Modes == BridgeModes \cup ServerModes \cup FacadeModes

\* A tool descriptor: its name, the required properties of its input
\* schema, and the optional ones with their defaults.
Tool(name, required, optional) ==
  [name |-> name, required |-> required, optional |-> optional]

\* Faulty variant: a facade that lists the filings tool with the search
\* tool's default.
FacadeToolListDrift ==
  << Tool("search_companies", <<"query">>, {<<"items_per_page", 20>>}),
     Tool("get_company_profile", <<"company_number">>, {}),
     Tool("get_company_officers", <<"company_number">>, {}),
     Tool("get_company_filings", <<"company_number">>, {<<"items_per_page", 20>>}) >>

\* The tools each server advertises, in the order of its tools/list array.
StreamableToolList ==
  << Tool("search_companies", <<"query">>, {<<"items_per_page", 20>>}),
     Tool("get_company_profile", <<"company_number">>, {}),
     Tool("get_company_officers", <<"company_number">>, {}),
     Tool("get_company_filings", <<"company_number">>, {<<"items_per_page", 25>>}) >>
StdioToolList ==
  << Tool("search_companies", <<"query">>, {<<"items_per_page", 20>>}),
     Tool("get_company_profile", <<"company_number">>, {}),
     Tool("get_company_officers", <<"company_number">>, {}),
     Tool("get_company_filings", <<"company_number">>, {<<"items_per_page", 25>>}) >>
FacadeToolList ==
  << Tool("search_companies", <<"query">>, {<<"items_per_page", 20>>}),
     Tool("get_company_profile", <<"company_number">>, {}),
     Tool("get_company_officers", <<"company_number">>, {}),
     Tool("get_company_filings", <<"company_number">>, {<<"items_per_page", 25>>}) >>

\* The names each server dispatches to a handler.
StreamableCases ==
  {"search_companies", "get_company_profile", "get_company_officers", "get_company_filings"}
StdioCases ==
  {"search_companies", "get_company_profile", "get_company_officers", "get_company_filings"}
\* Faulty variant: a facade that lists the officers tool without
\* registering its handler.
toolHandlersShort == {"search_companies", "get_company_profile", "get_company_filings"}

toolHandlers ==
  {"search_companies", "get_company_profile", "get_company_officers", "get_company_filings"}

\* ---------------------------------------------------------------- messages
\* What a client writes: one stdin line or one HTTP body.
\*   json     "invalid" (not JSON), "blank" (only white space),
\*            "nonobj" (JSON null, a number, a string), "obj" (an object)
\*   hasId    the object has an id property; id is its value
\*   hasParams, name, hasArgs   params, params.name, params.arguments
\*   items    arguments.items_per_page: <<>> when absent, <<n>> when given
Methods ==
  {"initialize", "tools/list", "tools/call", "bridge/status", "resources/list",
   "notifications/initialized", "notifications/cancelled"}

Msg(json, hasId, id, method, hasParams, name, hasArgs) ==
  [json |-> json, hasId |-> hasId, id |-> id, method |-> method,
   hasParams |-> hasParams, name |-> name, hasArgs |-> hasArgs, items |-> <<>>]

CallNames == {"search_companies", "nope"}

\* Message shapes; the id of a request is given when it is sent (IdOf).
Requests ==
  {Msg("obj", TRUE, Undefined, m, FALSE, NoValue, FALSE) :
     m \in {"initialize", "tools/list", "tools/call", "bridge/status", "resources/list"}}
  \cup {Msg("obj", TRUE, Undefined, "tools/call", TRUE, n, TRUE) : n \in CallNames}
  \cup {Msg("obj", TRUE, Undefined, "tools/call", TRUE, "search_companies", FALSE)}

Notifications ==
  {Msg("obj", FALSE, Undefined, m, FALSE, NoValue, FALSE) :
     m \in {"notifications/initialized", "notifications/cancelled", "tools/call"}}

Malformed ==
  {Msg(j, FALSE, Undefined, NoValue, FALSE, NoValue, FALSE) : j \in {"invalid", "blank", "nonobj"}}

\* A JSON body that is no object (the HTTP routes have no schema: their
\* body is any JSON value).
NonObjects == {m \in Malformed : m.json = "nonobj"}

\* Calls of the registered tools, without and with items_per_page.
ItemsChoices == {<<>>, <<7>>}
ToolCalls ==
  {[Msg("obj", TRUE, Undefined, "tools/call", TRUE, n, TRUE) EXCEPT !.items = it] :
     n \in {"search_companies", "get_company_filings"}, it \in ItemsChoices}
  \cup {Msg("obj", TRUE, Undefined, "tools/call", TRUE, n, TRUE) :
          n \in {"get_company_profile", "get_company_officers"}}

\* The client numbers its requests: the i-th message, when it is a request,
\* carries the id IdOf(i).
IdOf(i) == <<"id", i>>
Sent(m, i) == IF m.hasId THEN [m EXCEPT !.id = IdOf(i)] ELSE m

\* The lines a bridge may be given, and the bodies a server may be given
\* (an HTTP framework or the SDK has parsed them: they are JSON).
Lines == Requests \cup Notifications \cup Malformed
Bodies == Requests \cup Notifications

\* ------------------------------------------------------------ HTTP requests
\* What an HTTP client sends: verb, route, the route's name parameter and
\* the body (NoBody when there is none).
NoBody == Msg("blank", FALSE, Undefined, NoValue, FALSE, NoValue, FALSE)
HttpRequest(verb, path, name, body) ==
  [verb |-> verb, path |-> path, name |-> name, body |-> body]
NoRequest == HttpRequest(NoValue, NoValue, NoValue, NoBody)

\* The arguments object of a tools/call line, alone.
ArgsOf(l) ==
  IF l.hasArgs
    THEN [NoBody EXCEPT !.json = "obj", !.hasArgs = TRUE, !.items = l.items]
    ELSE NoBody

\* --------------------------------------------------------------- responses
\* A JSON-RPC response document.  hasResult/hasError say which of the two
\* members the document has; code, msg and n are the error's code, the
\* leading text of its message and the attempt count the message states;
\* cause is the error text of another component that the message embeds
\* ("" when it embeds none); tools is the tools array of a tools/list result.
Result(id, payload) ==
  [id |-> id, hasResult |-> TRUE, hasError |-> FALSE, payload |-> payload,
   code |-> 0, msg |-> "", n |-> 0, cause |-> "", tools |-> <<>>]

\* Faulty variant: an error document that also has a result member.
ErrorWithResult(id, code, msg, n) ==
  [id |-> id, hasResult |-> TRUE, hasError |-> TRUE, payload |-> "",
   code |-> code, msg |-> msg, n |-> n, cause |-> "", tools |-> <<>>]

Error(id, code, msg, n) ==
  [id |-> id, hasResult |-> FALSE, hasError |-> TRUE, payload |-> "",
   code |-> code, msg |-> msg, n |-> n, cause |-> "", tools |-> <<>>]

\* A document whose message embeds the text of the error it was made from,
\* and a document that carries a tools array.
Caused(doc, cause) == [doc EXCEPT !.cause = cause]
WithTools(doc, tools) == [doc EXCEPT !.tools = tools]

\* An HTTP reply: status and body (a response document, a REST body, or Empty).
Empty == [id |-> Undefined, hasResult |-> FALSE, hasError |-> FALSE, payload |-> "",
          code |-> 0, msg |-> "", n |-> 0, cause |-> "", tools |-> <<>>]
Reply(status, body) == [status |-> status, body |-> body]

\* A REST body of the HTTP facade (not a JSON-RPC document).
RestBody(payload, msg) ==
  [id |-> Undefined, hasResult |-> FALSE, hasError |-> FALSE, payload |-> payload,
   code |-> 0, msg |-> msg, n |-> 0, cause |-> "", tools |-> <<>>]

\* Outcomes of one call of the upstream registry API.
UpOutcomes == {"ok", "fail"}

\* ------------------------------------------------------- registry client
\* One call of CompaniesHouseService: the operation and the itemsPerPage
\* it is given (<<>> for an operation that has none).
NoCall == [op |-> NoValue, items |-> <<>>]
RegistryCall(name, items, default) ==
  [op |-> name,
   items |-> IF default = <<>> THEN <<>> ELSE IF items = <<>> THEN default ELSE items]

\* Faulty variant: a client that tries a failed GET a second time.
ServiceRetriesOnce(made) == made < 2

\* Each operation's catch block wraps the error and throws: the client
\* never repeats a GET, whatever the number of GETs made so far.
ServiceRetries(made) == FALSE

\* ------------------------------------------- Streamable HTTP server (POST /)
\* The default a tool handler gives items_per_page when it destructures
\* the arguments.
StreamableItemsDefault(name) ==
  CASE name = "search_companies" -> <<20>>
    [] name = "get_company_filings" -> <<25>>
    [] OTHER -> <<>>

\* handleToolCall destructures params before its try block: a request
\* without params throws out of it.
handleToolCallThrows(m) == ~m.hasParams

\* The tool handler destructures the arguments and then calls the registry.
StreamableCallsUpstream(m) ==
  /\ m.json = "obj" /\ m.hasId /\ m.method = "tools/call"
  /\ m.hasParams /\ m.name \in StreamableCases /\ m.hasArgs

\* The catch block's message is "Tool execution failed: " and the message
\* of what was thrown: the registry client's error, or the TypeError of
\* destructuring missing arguments.
handleToolCall(id, m, up) ==
  IF m.name \in StreamableCases
    THEN IF ~m.hasArgs
           THEN Error(id, InternalError, "Tool execution failed", 0)
           ELSE IF up = "ok"
                  THEN Result(id, "content")
                  ELSE Caused(Error(id, InternalError, "Tool execution failed", 0), "upstream")
    ELSE Error(id, MethodNotFound, "Unknown tool", 0)

\* Faulty variant: a dispatcher that serves the tools only once it has
\* received initialize.
handleRequestInitialized(m, up) ==
  IF /\ m.method \in {"tools/list", "tools/call"}
     /\ \A k \in 1 .. Len(tasks) : tasks[k].line.method # "initialize"
    THEN Error(m.id, InternalError, "Not initialized", 0)
    ELSE CASE m.method = "initialize" -> Result(m.id, "serverInfo")
           [] m.method = "tools/list" -> WithTools(Result(m.id, "tools"), StreamableToolList)
           [] m.method = "tools/call" ->
                IF handleToolCallThrows(m)
                  THEN Error(m.id, InternalError, "TypeError", 0)
                  ELSE handleToolCall(m.id, m, up)
           [] OTHER -> Error(m.id, MethodNotFound, "Unknown method", 0)

handleRequest(m, up) ==
  CASE m.method = "initialize" -> Result(m.id, "serverInfo")
    [] m.method = "tools/list" -> WithTools(Result(m.id, "tools"), StreamableToolList)
    [] m.method = "tools/call" ->
         IF handleToolCallThrows(m)
           THEN Error(m.id, InternalError, "TypeError", 0)
           ELSE handleToolCall(m.id, m, up)
    [] OTHER -> Error(m.id, MethodNotFound, "Unknown method", 0)

\* 'id' in body throws a TypeError for a body that is no object, in the
\* route's try block and again in its catch block.
RouteThrows(m) == m.json = "nonobj"

\* The framework's reply to a route handler that threw: its own error
\* body (statusCode, error, message), not a JSON-RPC document.
FrameworkError == Reply(500, RestBody("error", "TypeError"))

\* Faulty variant: a route that answers a notification whose method it
\* does not know.
PostRootAnswersUnknown(m, up) ==
  IF RouteThrows(m)
    THEN FrameworkError
    ELSE IF ~m.hasId
           THEN IF m.method \in {"notifications/initialized", "notifications/cancelled"}
                  THEN Reply(204, Empty)
                  ELSE Reply(500, Error(Null, InternalError, "Unknown notification", 0))
           ELSE Reply(200, handleRequest(m, up))

\* The POST / route: 204 for a notification, the response for a request.
PostRoot(m, up) ==
  IF RouteThrows(m)
    THEN FrameworkError
    ELSE IF ~m.hasId
           THEN Reply(204, Empty)
           ELSE Reply(200, handleRequest(m, up))

\* ------------------------------------------------------------- HTTP facade
\* Faulty variant: handlers that share the search tool's default.
FacadeItemsDefaultShared(name) ==
  CASE name = "search_companies" -> <<20>>
    [] name = "get_company_filings" -> <<20>>
    [] OTHER -> <<>>

FacadeItemsDefault(name) ==
  CASE name = "search_companies" -> <<20>>
    [] name = "get_company_filings" -> <<25>>
    [] OTHER -> <<>>

GetTools == Reply(200, WithTools(RestBody("tools", ""), FacadeToolList))

FacadeCallsUpstream(name, hasArgs) == name \in toolHandlers /\ hasArgs

\* Faulty variant: a route that does not look the tool up.
PostMcpToolsAny(name, hasArgs, up) ==
  IF hasArgs /\ up = "ok"
    THEN Reply(200, RestBody("content", ""))
    ELSE Reply(500, RestBody("error", "handler failed"))

\* Faulty variant: a tool route that reports a handler's exception as a
\* result.
PostMcpToolsSwallows(name, hasArgs, up) ==
  IF name \notin toolHandlers
    THEN Reply(404, RestBody("error", "not found"))
    ELSE IF hasArgs /\ up = "ok"
           THEN Reply(200, RestBody("content", ""))
           ELSE Reply(200, RestBody("error", "handler failed"))

PostMcpTools(name, hasArgs, up) ==
  IF name \notin toolHandlers
    THEN Reply(404, RestBody("error", "not found"))
    ELSE IF hasArgs /\ up = "ok"
           THEN Reply(200, RestBody("content", ""))
           ELSE IF hasArgs
                  THEN Reply(500, Caused(RestBody("error", "handler failed"), "upstream"))
                  ELSE Reply(500, RestBody("error", "handler failed"))

\* The body of POST /mcp/bridge's catch block: { error, code }.
BridgeFailure(msg) == [RestBody("error", msg) EXCEPT !.code = InternalError]

BridgeRouteCallsUpstream(m) ==
  /\ m.json = "obj" /\ m.method = "tools/call"
  /\ m.hasParams /\ m.name \in toolHandlers /\ m.hasArgs

\* The POST /mcp/bridge route: it reads method and params of the body and
\* never its id; what it does not know it throws into its catch block.
PostMcpBridge(m, up) ==
  CASE m.json # "obj" -> Reply(500, BridgeFailure("Unsupported method"))
    [] m.json = "obj" /\ m.method = "tools/list" ->
         Reply(200, WithTools(RestBody("tools", ""), FacadeToolList))
    [] m.json = "obj" /\ m.method = "tools/call" ->
         IF ~m.hasParams
           THEN Reply(500, BridgeFailure("TypeError"))
           ELSE IF m.name \notin toolHandlers
                  THEN Reply(404, RestBody("error", "not found"))
                  ELSE IF ~m.hasArgs
                         THEN Reply(500, BridgeFailure("TypeError"))
                         ELSE IF up = "ok"
                                THEN Reply(200, RestBody("content", ""))
                                ELSE Reply(500, Caused(BridgeFailure("handler failed"),
                                                       "upstream"))
    [] m.json = "obj" /\ m.method = "initialize" -> Reply(200, RestBody("serverInfo", ""))
    [] OTHER -> Reply(500, BridgeFailure("Unsupported method"))

\* The default a GET /stream route gives items_per_page.
StreamRouteDefault(name) ==
  CASE name = "search_companies" -> <<20>>
    [] name = "get_company_filings" -> <<25>>
    [] OTHER -> <<>>

\* Faulty variant: a stream route that writes its data event before the
\* registry call is known to have failed.
StreamWritesBoth(up) ==
  IF up = "ok" THEN <<"event: data", "end">> ELSE <<"event: data", "event: error", "end">>

\* What a GET /stream route writes to the raw response, in order.
StreamWrites(up) ==
  IF up = "ok" THEN <<"event: data", "end">> ELSE <<"event: error", "end">>

\* The writes of a stream route as replies: the events carry the result or
\* the error's message.
GetStream(up) ==
  [k \in 1 .. Len(StreamWrites(up)) |->
     Reply(200, IF StreamWrites(up)[k] = "event: error"
                  THEN Caused(RestBody(StreamWrites(up)[k], ""), "upstream")
                  ELSE RestBody(StreamWrites(up)[k], ""))]

\* The facade's routes: what it replies to a request (one reply, or a
\* stream's writes), whether it calls the registry, and with what.
FacadeReplies(req, up) ==
  CASE req.path = "/tools" -> <<GetTools>>
    [] req.path = "/mcp/tools/:toolName" -> <<PostMcpTools(req.name, req.body.hasArgs, up)>>
    [] req.path = "/mcp/bridge" -> <<PostMcpBridge(req.body, up)>>
    [] OTHER -> GetStream(up)

FacadeRouteCallsUpstream(req) ==
  CASE req.path = "/tools" -> FALSE
    [] req.path = "/mcp/tools/:toolName" -> FacadeCallsUpstream(req.name, req.body.hasArgs)
    [] req.path = "/mcp/bridge" -> BridgeRouteCallsUpstream(req.body)
    [] OTHER -> TRUE

FacadeUpstreamCall(req) ==
  CASE req.path = "/mcp/tools/:toolName" ->
         RegistryCall(req.name, req.body.items, FacadeItemsDefault(req.name))
    [] req.path = "/mcp/bridge" ->
         RegistryCall(req.body.name, req.body.items, FacadeItemsDefault(req.body.name))
    [] OTHER -> RegistryCall(req.name, req.body.items, StreamRouteDefault(req.name))

\* The requests a client of the facade sends.
FacadeRequests ==
  {HttpRequest("GET", "/tools", NoValue, NoBody)}
  \cup {HttpRequest("POST", "/mcp/tools/:toolName", m.name, ArgsOf(m)) :
          m \in ToolCalls \cup {r \in Requests : r.method = "tools/call" /\ r.hasParams}}
  \cup {HttpRequest("POST", "/mcp/bridge", NoValue, m) : m \in Bodies \cup NonObjects}
  \cup {HttpRequest("GET", "/stream", m.name, [NoBody EXCEPT !.items = m.items]) :
          m \in ToolCalls}

\* ------------------------------------------------------------ stdio server
StdioItemsDefault(name) ==
  CASE name = "search_companies" -> <<20>>
    [] name = "get_company_filings" -> <<25>>
    [] OTHER -> <<>>

\* The CallTool handler's switch: a result, or the McpError it throws
\* (an Error without an id).
StdioSwitch(m, up) ==
  IF m.name \in StdioCases
    THEN IF ~m.hasArgs
           THEN Error(Undefined, InternalError, "TypeError", 0)
           ELSE IF up = "ok"
                  THEN Result(Undefined, "content")
                  ELSE Caused(Error(Undefined, InternalError, "Failed to search companies", 0),
                              "upstream")
    ELSE Error(Undefined, MethodNotFound, "Unknown tool", 0)

\* Faulty variant: a catch block that drops the text of what it caught.
StdioCatchBare(thrown) == Error(Undefined, InternalError, "Tool execution failed", 0)

\* The handler's catch block wraps whatever the switch threw: its message
\* is "Tool execution failed: " and the text of the error caught.
StdioCatch(thrown) ==
  Caused(Error(Undefined, InternalError, "Tool execution failed", 0), thrown.cause)

StdioCallTool(m, up) ==
  LET r == StdioSwitch(m, up)
  IN  IF r.hasError THEN StdioCatch(r) ELSE r

StdioCallsUpstream(m) ==
  m.method = "tools/call" /\ m.name \in StdioCases /\ m.hasArgs

\* The SDK's protocol layer answers the request with the handler's return
\* value, or with the code and message of the McpError it threw.
StdioRespond(m, r) == [r EXCEPT !.id = m.id]

StdioHandle(m, up) ==
  IF m.method = "tools/list"
    THEN StdioRespond(m, WithTools(Result(Undefined, "tools"), StdioToolList))
    ELSE StdioRespond(m, StdioCallTool(m, up))

\* ------------------------------------------------------------------ tasks
\* The processes whose entry point (main) is in the source; the other
\* processes are taken up once they are constructed.
MainModes == {"stdio", "http"}

\* The shutdown timer is <<>> until it is set and <<delay>> from then on.
NoTimer == <<>>
TimerSet(t) == t # NoTimer

\* A task: the message, where its handler stands, and what it has done.
\*   pc       "http" (awaiting the HTTP reply), "sleep" (in backoff),
\*            "upstream" (a server awaiting the registry API), "done"
\*   attempt  the retry loop's variable
\*   held     the sleep it is in cannot end before the shutdown timer fires
\*   calls    HTTP requests issued for it; failed: those that failed (for a
\*            server: registry calls that threw)
\*   delays   the backoff delays slept, in order
\*   upcalls  registry API calls made for it (by the server that serves it)
\*   req      the HTTP request a bridge makes for it, or the facade was sent
\*   upreq    the registry call a server makes for it
\* Faulty variant: a listener that queues the line and issues its first
\* HTTP request later.
TaskDeferred(line, pc, attempt, calls) ==
  [line |-> line, pc |-> IF pc = "http" THEN "sleep" ELSE pc, attempt |-> attempt - 1,
   held |-> FALSE, calls |-> 0, failed |-> 0, delays |-> <<>>, upcalls |-> 0,
   req |-> NoRequest, upreq |-> NoCall]

Task(line, pc, attempt, calls) ==
  [line |-> line, pc |-> pc, attempt |-> attempt, held |-> FALSE,
   calls |-> calls, failed |-> 0, delays |-> <<>>, upcalls |-> 0,
   req |-> NoRequest, upreq |-> NoCall]

Out(i, doc) == [src |-> i, doc |-> doc]

\* The line printed by console.log(JSON.stringify(undefined)).
UndefinedLine == RestBody("undefined", "")

\* What each process writes to standard error: at startup, for a line it
\* reads, for a failed HTTP request, at shutdown, for an HTTP request it
\* serves (the framework's logger).
LogsStartup == mode \in {"rest-bridge", "streamable"}
LogsLine == mode = "rest-bridge"
\* Faulty variant: a retry loop that reports each failure in both bridges.
LogsFailureAlways == TRUE
LogsFailure == mode = "rest-bridge"
LogsShutdown == mode = "rest-bridge"
LogsRequest == mode = "streamable"

Init ==
  /\ mode \in Modes
  /\ MAX_RETRY_ATTEMPTS \in (IF mode \in BridgeModes THEN 0 .. MaxRetry ELSE {0})
  /\ RECONNECT_DELAY \in
       (IF mode \in BridgeModes THEN {ShortDelay, DEFAULT_RECONNECT_DELAY}
                                ELSE {DEFAULT_RECONNECT_DELAY})
  /\ retryCount = 0
  /\ closed = FALSE
  /\ exitTimer = NoTimer
  /\ exited = FALSE
  /\ exitCode = 0
  /\ tasks = <<>>
  /\ stdout = <<>>
  /\ replies = <<>>
  /\ stderrWritten = LogsStartup
  /\ apiKey \in (IF mode \in MainModes THEN {"absent", "empty", "set"} ELSE {"set"})
  /\ listening = (mode \notin MainModes)
  /\ MCP_HTTP_TIMEOUT \in (IF mode = "rest-bridge" THEN {Unset, <<LongTimeout>>} ELSE {Unset})

\* ------------------------------------------------------------ bridge: retry
\* The timeout of the REST bridge's HTTP client, given to axios.create: a
\* literal, whatever the environment holds.
HttpClientTimeout == HTTP_TIMEOUT

ExitDelay == IF mode = "rest-bridge" THEN REST_EXIT_DELAY ELSE STREAMABLE_EXIT_DELAY

\* Failed HTTP requests of the whole run so far.
RECURSIVE SumFailed(_)
SumFailed(i) == IF i = 0 THEN 0 ELSE tasks[i].failed + SumFailed(i - 1)
TotalFailed == SumFailed(Len(tasks))

\* Faulty variants of the loop: a loop that stops one turn early, a delay
\* that does not grow, a delay driven by a process-wide failure count.
LoopEntersStrict(attempt) == attempt < MAX_RETRY_ATTEMPTS
BackoffFlat(attempt) == RECONNECT_DELAY
BackoffShared(attempt) == RECONNECT_DELAY * (2 ^ TotalFailed)
\* Faulty variant: a retry budget that the whole process shares.
CanRetryShared(attempt) == TotalFailed < MAX_RETRY_ATTEMPTS

\* Faulty variant: a catch block that counts the failure.
RetryCountIncrements(rc) == rc + 1

\* retryCount after a failed attempt: the catch block does not assign it.
RetryCountOnFailure(rc) == rc

\* Faulty variant: a loop that goes on to its next turn after a success.
SuccessFallsThrough == FALSE

\* return response: a successful attempt leaves the loop.
SuccessReturns == TRUE

\* The retry loop's condition, its retry test and its backoff delay.
LoopEnters(attempt) == attempt <= MAX_RETRY_ATTEMPTS
CanRetry(attempt) == attempt < MAX_RETRY_ATTEMPTS
Backoff(attempt) == RECONNECT_DELAY * (2 ^ attempt)
AttemptsStated == MAX_RETRY_ATTEMPTS + 1

\* Timers fire in the order of their deadlines: a sleep of delay ms that
\* starts once the shutdown timer is set ends after it unless it is shorter.
Held(delay) == TimerSet(exitTimer) /\ delay >= exitTimer[1]

\* Faulty variant: a bridge that does not look for the id.
NeedsHttpAnyId(l) ==
  /\ l.json = "obj"
  /\ IF mode = "rest-bridge"
       THEN l.method = "tools/list" \/ (l.method = "tools/call" /\ l.hasParams)
       ELSE TRUE

\* Faulty variant: a REST bridge that forwards every request.
NeedsHttpAlways(l) == l.json = "obj" /\ l.hasId

\* Whether a request line makes the bridge call the HTTP server.
NeedsHttp(l) ==
  /\ l.json = "obj" /\ l.hasId
  /\ IF mode = "rest-bridge"
       THEN l.method = "tools/list" \/ (l.method = "tools/call" /\ l.hasParams)
       ELSE TRUE

\* The text a bridge puts before the failure it reports for a request.
FailurePrefix(l) ==
  IF mode = "rest-bridge"
    THEN IF l.method = "tools/list" THEN "Failed to get tools" ELSE "Tool execution failed"
    ELSE "Streamable server request failed"

\* The server's reply to the HTTP request a bridge makes for line l.
\* Faulty variant: a REST bridge that posts the whole envelope.
RestRequestOfEnvelope(l) ==
  IF l.method = "tools/list"
    THEN HttpRequest("GET", "/tools", NoValue, NoBody)
    ELSE HttpRequest("POST", "/mcp/tools/:toolName", l.name, l)

\* The HTTP request the REST bridge makes for a line.
RestRequestOf(l) ==
  IF l.method = "tools/list"
    THEN HttpRequest("GET", "/tools", NoValue, NoBody)
    ELSE HttpRequest("POST", "/mcp/tools/:toolName", l.name, ArgsOf(l))

\* Faulty variant: a streamable bridge that forwards the request as a
\* notification (without its id).
StreamableRequestOfNoId(l) ==
  HttpRequest("POST", "/", NoValue, [l EXCEPT !.hasId = FALSE, !.id = Undefined])

\* The HTTP request the streamable bridge makes for a line.
StreamableRequestOf(l) == HttpRequest("POST", "/", NoValue, l)

RequestOf(l) == IF mode = "rest-bridge" THEN RestRequestOf(l) ELSE StreamableRequestOf(l)

\* What the server behind the bridge replies to the bridge's request.
ServerReply(l, up) ==
  IF mode = "rest-bridge"
    THEN FacadeReplies(RequestOf(l), up)[1]
    ELSE PostRoot(RequestOf(l).body, up)

ServerCallsUpstream(l) ==
  IF mode = "rest-bridge"
    THEN FacadeRouteCallsUpstream(RequestOf(l))
    ELSE StreamableCallsUpstream(RequestOf(l).body)

\* Faulty variant: a client that takes every status below 500 for an answer.
IsBelow500(status) == status < 500

\* axios resolves on a 2xx status and rejects on any other.
Is2xx(status) == 200 <= status /\ status < 300

\* Faulty variant: the REST bridge's envelope without the request's id.
SuccessLineNoId(l, reply) ==
  IF mode = "rest-bridge" THEN Result(Null, reply.body.payload) ELSE reply.body

\* What the bridge prints for a 2xx reply.
SuccessLine(l, reply) ==
  IF mode = "rest-bridge"
    THEN WithTools(Result(l.id, reply.body.payload), reply.body.tools)
    ELSE reply.body

\* What the bridge prints when the retry loop ends without returning or
\* throwing (makeHttpRequest then returns undefined).
NoAttemptLine(l) ==
  IF mode = "rest-bridge"
    THEN Error(l.id, InternalError, FailurePrefix(l), 0)
    ELSE UndefinedLine

\* --------------------------------------------------- bridge: processRequest
\* Faulty variant: a REST bridge that rejects an unknown method with the
\* default code of sendError.
BridgeLocalDefaultCode(l) ==
  CASE l.json = "blank" -> <<>>
    [] l.json = "invalid" -> <<Error(Null, InternalError, "Invalid JSON", 0)>>
    [] l.json = "nonobj" ->
         IF mode = "streamable-bridge"
           THEN <<Error(Null, InternalError, "Processing error", 0)>>
           ELSE <<>>
    [] l.json = "obj" /\ ~l.hasId -> <<>>
    [] OTHER ->
         CASE l.method = "initialize" -> <<Result(l.id, "serverInfo")>>
           [] l.method = "bridge/status" -> <<Result(l.id, "status")>>
           [] OTHER -> <<Error(l.id, InternalError, "Unknown method", 0)>>

\* The documents processRequest prints for a line before its first await
\* (sendError for what it rejects, the local answers of the REST bridge).
BridgeLocal(l) ==
  CASE l.json = "blank" -> <<>>
    [] l.json = "invalid" -> <<Error(Null, InternalError, "Invalid JSON", 0)>>
    [] l.json = "nonobj" ->
         IF mode = "streamable-bridge"
           THEN <<Error(Null, InternalError, "Processing error", 0)>>
           ELSE <<>>
    [] l.json = "obj" /\ ~l.hasId -> <<>>
    [] OTHER ->
         CASE l.method = "initialize" -> <<Result(l.id, "serverInfo")>>
           [] l.method = "bridge/status" ->
                <<[Result(l.id, "status") EXCEPT !.n = retryCount]>>
           [] l.method = "tools/call" -> <<Error(l.id, InternalError, "Tool execution failed", 0)>>
           [] OTHER -> <<Error(l.id, MethodNotFound, "Unknown method", 0)>>

\* The REST bridge's line listener is an async function nobody awaits: a
\* rejection of processRequest ends the process.
Crashes(l) == mode = "rest-bridge" /\ l.json = "nonobj"

\* Faulty variant: every document is printed twice.
OutsTwice(i, docs) == [k \in 1 .. 2 * Len(docs) |-> Out(i, docs[(k + 1) \div 2])]

Outs(i, docs) == [k \in 1 .. Len(docs) |-> Out(i, docs[k])]

\* Faulty variant: a listener that waits for the earlier lines' handlers.
ListenerSerial == \A i \in 1 .. Len(tasks) : tasks[i].pc = "done"

\* readline emits 'line' for every line it has, whether or not the
\* promises of earlier listeners have settled.
ListenerReady == TRUE

\* rl.on('line'): one stdin line, up to the first await of its handler.
ReadLine(shape) ==
  /\ mode \in BridgeModes /\ ~exited /\ ~closed
  /\ ListenerReady
  /\ Len(tasks) < MaxLines
  /\ LET i == Len(tasks) + 1
         l == Sent(shape, i)
     IN
       IF NeedsHttp(l)
         THEN IF LoopEnters(0)
                THEN /\ tasks' = Append(tasks, [Task(l, "http", 0, 1) EXCEPT !.req = RequestOf(l)])
                     /\ UNCHANGED stdout
                ELSE /\ tasks' = Append(tasks, Task(l, "done", 0, 0))
                     /\ stdout' = Append(stdout, Out(i, NoAttemptLine(l)))
         ELSE /\ tasks' = Append(tasks, Task(l, "done", 0, 0))
              /\ stdout' = stdout \o Outs(i, BridgeLocal(l))
  /\ exited' = Crashes(shape)
  /\ exitCode' = IF Crashes(shape) THEN 1 ELSE exitCode
  /\ stderrWritten' = (stderrWritten \/ LogsLine)
  /\ UNCHANGED <<config, listening, retryCount, closed, exitTimer, replies>>

\* The awaited HTTP reply of task i arrives, or the request fails.
\*   out = "refused": no reply (connection error, timeout)
\*   out = "ok"/"fail": the server answers, its registry call succeeding or not
HttpDone(i, out) ==
  /\ mode \in BridgeModes /\ ~exited
  /\ i \in 1 .. Len(tasks)
  /\ tasks[i].pc = "http"
  /\ LET t == tasks[i]
         l == t.line
         reply == ServerReply(l, out)
         up == IF out # "refused" /\ ServerCallsUpstream(l) THEN 1 ELSE 0
     IN  IF out # "refused" /\ Is2xx(reply.status)
           THEN /\ retryCount' = 0
                /\ tasks' = [tasks EXCEPT ![i].pc = IF SuccessReturns THEN "done" ELSE "sleep",
                                          ![i].upcalls = @ + up]
                /\ stdout' = Append(stdout, Out(i, SuccessLine(l, reply)))
                /\ UNCHANGED stderrWritten
           ELSE IF CanRetry(t.attempt)
                  THEN /\ tasks' = [tasks EXCEPT ![i].pc = "sleep",
                                                 ![i].held = Held(Backoff(t.attempt)),
                                                 ![i].delays = Append(@, Backoff(t.attempt)),
                                                 ![i].failed = @ + 1,
                                                 ![i].upcalls = @ + up]
                       /\ stderrWritten' = (stderrWritten \/ LogsFailure)
                       /\ retryCount' = RetryCountOnFailure(retryCount)
                       /\ UNCHANGED stdout
                  ELSE /\ tasks' = [tasks EXCEPT ![i].pc = "done", ![i].failed = @ + 1,
                                                 ![i].upcalls = @ + up]
                       /\ stdout' = Append(stdout,
                            Out(i, Error(l.id, InternalError, FailurePrefix(l), AttemptsStated)))
                       /\ stderrWritten' = (stderrWritten \/ LogsFailure)
                       /\ retryCount' = RetryCountOnFailure(retryCount)
  /\ UNCHANGED <<config, listening, closed, exitTimer, exited, exitCode, replies>>

\* The backoff sleep of task i ends: the loop takes its next turn.
WakeUp(i) ==
  /\ mode \in BridgeModes /\ ~exited
  /\ i \in 1 .. Len(tasks)
  /\ tasks[i].pc = "sleep" /\ ~tasks[i].held
  /\ IF LoopEnters(tasks[i].attempt + 1)
       THEN /\ tasks' = [tasks EXCEPT ![i].pc = "http", ![i].attempt = @ + 1,
                                      ![i].held = FALSE, ![i].calls = @ + 1]
            /\ UNCHANGED stdout
       ELSE /\ tasks' = [tasks EXCEPT ![i].pc = "done", ![i].attempt = @ + 1]
            /\ stdout' = Append(stdout, Out(i, NoAttemptLine(tasks[i].line)))
  /\ UNCHANGED <<config, listening, retryCount, closed, exitTimer, exited, exitCode, replies,
                 stderrWritten>>

\* ------------------------------------------------------- bridge: shutdown
\* rl.close(): the first call emits 'close', whose listener sets the exit
\* timer; a later call returns at once.
RlClose ==
  IF closed
    THEN UNCHANGED <<closed, exitTimer>>
    ELSE closed' = TRUE /\ exitTimer' = <<ExitDelay>>

\* Standard input ends.
StdinEnd ==
  /\ mode \in BridgeModes /\ ~exited /\ ~closed
  /\ RlClose
  /\ stderrWritten' = (stderrWritten \/ LogsShutdown)
  /\ UNCHANGED <<config, listening, retryCount, exited, exitCode, tasks, stdout, replies>>

\* Faulty variant: a signal handler that ends the process itself.
SignalExits(sig) ==
  /\ mode \in BridgeModes /\ ~exited
  /\ sig \in {"SIGINT", "SIGTERM"}
  /\ exited' = TRUE /\ exitCode' = 0
  /\ UNCHANGED <<config, listening, retryCount, closed, exitTimer, tasks, stdout, replies,
                 stderrWritten>>

\* SIGINT or SIGTERM is delivered.
Signal(sig) ==
  /\ mode \in BridgeModes /\ ~exited
  /\ sig \in {"SIGINT", "SIGTERM"}
  /\ RlClose
  /\ stderrWritten' = (stderrWritten \/ LogsShutdown)
  /\ UNCHANGED <<config, listening, retryCount, exited, exitCode, tasks, stdout, replies>>

\* The shutdown timer fires: process.exit(0).
Exit ==
  /\ mode \in BridgeModes /\ ~exited
  /\ TimerSet(exitTimer)
  /\ exited' = TRUE /\ exitCode' = 0
  /\ UNCHANGED exitTimer
  /\ UNCHANGED <<config, listening, retryCount, closed, tasks, stdout, replies, stderrWritten>>

\* ---------------------------------------------------------------- servers
StdioBodies ==
  {m \in Requests : m.method = "tools/list" \/ (m.method = "tools/call" /\ m.hasParams)}

ServerBodies ==
  IF mode = "stdio" THEN StdioBodies \cup ToolCalls
                    ELSE Bodies \cup NonObjects \cup ToolCalls

CallsUpstream(m) ==
  IF mode = "stdio" THEN StdioCallsUpstream(m) ELSE StreamableCallsUpstream(m)

\* The registry call the handler of message m makes.
UpstreamCall(m) ==
  RegistryCall(m.name, m.items,
               IF mode = "stdio" THEN StdioItemsDefault(m.name)
                                 ELSE StreamableItemsDefault(m.name))

\* Faulty variant: a check that takes the empty string for a key.
KeyAbsent == apiKey = "absent"

\* !process.env.COMPANIES_HOUSE_API_KEY
KeyMissing == apiKey \in {"absent", "empty"}

\* main() of the stdio server and of the HTTP facade: without a key it
\* reports and exits before it constructs the server; the facade then
\* listens, which may fail.
Main(listens) ==
  /\ mode \in MainModes /\ ~listening /\ ~exited
  /\ listens \in (IF mode = "http" /\ ~KeyMissing THEN BOOLEAN ELSE {TRUE})
  /\ IF KeyMissing \/ ~listens
       THEN /\ exited' = TRUE /\ exitCode' = 1
            /\ stderrWritten' = TRUE
            /\ UNCHANGED listening
       ELSE /\ listening' = TRUE
            /\ stderrWritten' = (stderrWritten \/ mode = "http")
            /\ UNCHANGED <<exited, exitCode>>
  /\ UNCHANGED <<config, retryCount, closed, exitTimer, tasks, stdout, replies>>

\* The replies of a server's handler for task i, appended to its channel.
AppendReplies(i, rs) ==
  replies' = replies \o [k \in 1 .. Len(rs) |-> [src |-> i, reply |-> rs[k]]]

\* The server's answer to message m of task i, appended to its channel.
Respond(i, m, up) ==
  IF mode = "stdio"
    THEN /\ stdout' = Append(stdout, Out(i, StdioHandle(m, up)))
         /\ UNCHANGED replies
    ELSE /\ AppendReplies(i, <<PostRoot(m, up)>>)
         /\ UNCHANGED stdout

\* A server takes a message and runs its handler up to the registry call.
Receive(shape) ==
  /\ mode \in ServerModes /\ listening /\ ~exited
  /\ shape \in ServerBodies
  /\ Len(tasks) < MaxLines
  /\ LET m == Sent(shape, Len(tasks) + 1) IN
     IF CallsUpstream(m)
       THEN /\ tasks' = Append(tasks, [Task(m, "upstream", 0, 0)
                                         EXCEPT !.upcalls = 1, !.upreq = UpstreamCall(m)])
            /\ UNCHANGED <<stdout, replies>>
       ELSE /\ tasks' = Append(tasks, Task(m, "done", 0, 0))
            /\ Respond(Len(tasks) + 1, m, "ok")
  /\ stderrWritten' = (stderrWritten \/ LogsRequest)
  /\ UNCHANGED <<config, listening, retryCount, closed, exitTimer, exited, exitCode>>

\* The registry call of task i returns or throws.
UpstreamDone(i, up) ==
  /\ mode \in ServerModes \cup FacadeModes
  /\ i \in 1 .. Len(tasks)
  /\ tasks[i].pc = "upstream"
  /\ IF up = "fail" /\ ServiceRetries(tasks[i].upcalls)
       THEN /\ tasks' = [tasks EXCEPT ![i].upcalls = @ + 1]
            /\ UNCHANGED <<stdout, replies>>
       ELSE /\ tasks' = [tasks EXCEPT ![i].pc = "done",
                                      ![i].failed = IF up = "fail" THEN 1 ELSE 0]
            /\ IF mode \in FacadeModes
                 THEN /\ AppendReplies(i, FacadeReplies(tasks[i].req, up))
                      /\ UNCHANGED stdout
                 ELSE Respond(i, tasks[i].line, up)
  /\ UNCHANGED <<config, listening, retryCount, closed, exitTimer, exited, exitCode,
                 stderrWritten>>

\* The facade takes an HTTP request and runs its route up to the registry
\* call (its logger's level is warn: a request writes nothing).
FacadeServe(req) ==
  /\ mode \in FacadeModes /\ listening /\ ~exited
  /\ req \in FacadeRequests
  /\ Len(tasks) < MaxLines
  /\ LET i == Len(tasks) + 1
         r == [req EXCEPT !.body = Sent(req.body, i)]
     IN  IF FacadeRouteCallsUpstream(r)
           THEN /\ tasks' = Append(tasks, [Task(r.body, "upstream", 0, 0)
                                             EXCEPT !.upcalls = 1, !.req = r,
                                                    !.upreq = FacadeUpstreamCall(r)])
                /\ UNCHANGED replies
           ELSE /\ tasks' = Append(tasks, [Task(r.body, "done", 0, 0) EXCEPT !.req = r])
                /\ AppendReplies(i, FacadeReplies(r, "ok"))
  /\ UNCHANGED <<config, listening, retryCount, closed, exitTimer, exited, exitCode,
                 stdout, stderrWritten>>

\* ------------------------------------------------------------ specification
Next ==
  \/ \E l \in Lines : ReadLine(l)
  \/ \E i \in 1 .. MaxLines + 1, out \in {"refused"} \cup UpOutcomes : HttpDone(i, out)
  \/ \E i \in 1 .. MaxLines + 1 : WakeUp(i)
  \/ StdinEnd
  \/ \E sig \in {"SIGINT", "SIGTERM"} : Signal(sig)
  \/ Exit
  \/ \E m \in Lines : Receive(m)
  \/ \E i \in 1 .. MaxLines + 1, up \in UpOutcomes : UpstreamDone(i, up)
  \/ \E listens \in BOOLEAN : Main(listens)
  \/ \E req \in FacadeRequests : FacadeServe(req)

Spec == Init /\ [][Next]_vars

\* A bridge whose MCP_MAX_RETRY_ATTEMPTS is any small integer, negative
\* ones included (parseInt takes them as they are).
AnyRetryInit ==
  /\ mode \in BridgeModes
  /\ MAX_RETRY_ATTEMPTS \in -MaxNegative .. 1
  /\ RECONNECT_DELAY = DEFAULT_RECONNECT_DELAY
  /\ retryCount = 0
  /\ closed = FALSE
  /\ exitTimer = NoTimer
  /\ exited = FALSE
  /\ exitCode = 0
  /\ tasks = <<>>
  /\ stdout = <<>>
  /\ replies = <<>>
  /\ stderrWritten = LogsStartup
  /\ apiKey = "set"
  /\ listening = TRUE
  /\ MCP_HTTP_TIMEOUT = Unset

AnyRetryNext ==
  \/ \E l \in Lines : ReadLine(l)
  \/ \E i \in 1 .. MaxLines + 1, out \in {"refused"} \cup UpOutcomes : HttpDone(i, out)
  \/ \E i \in 1 .. MaxLines + 1 : WakeUp(i)
  \/ StdinEnd
  \/ \E sig \in {"SIGINT", "SIGTERM"} : Signal(sig)
  \/ Exit

AnyRetrySpec == AnyRetryInit /\ [][AnyRetryNext]_vars

\* A timer that is set fires: the event loop is never blocked for good.
FairSpec == Spec /\ WF_vars(Exit)

\* ================================================================== claims
IsBridge == mode \in BridgeModes
TaskIds == 1 .. Len(tasks)
IsRequest(l) == l.json = "obj" /\ l.hasId
IsNotification(l) == l.json = "obj" /\ ~l.hasId
\* The positions in stdout of the lines written for task i.
LinesOf(i) == {k \in 1 .. Len(stdout) : stdout[k].src = i}
\* Task i made HTTP requests, all of them failed, and it is over.
Exhausted(i) == tasks[i].pc = "done" /\ tasks[i].calls > 0 /\ tasks[i].failed = tasks[i].calls

\* C1: every line a bridge or the stdio server writes for a request, and
\* every Streamable HTTP reply to a request, carries the request's id; the
\* line written for unparsable input carries the id null.
IdEcho ==
  /\ \A k \in 1 .. Len(stdout) :
       LET l == tasks[stdout[k].src].line
           d == stdout[k].doc
       IN  /\ IsRequest(l) => d.id = l.id
           /\ l.json = "invalid" => d.id = Null
  /\ \A k \in 1 .. Len(replies) :
       LET l == tasks[replies[k].src].line
       IN  (mode = "streamable" /\ IsRequest(l)) => replies[k].reply.body.id = l.id

\* C1 witness: the REST bridge has answered unparsable input with id null
\* and then a tools/list request, second in line, with a result under the
\* request's id.
IdEchoWitness ==
  /\ mode = "rest-bridge" /\ Len(tasks) = 2 /\ Len(stdout) = 2
  /\ tasks[1].line.json = "invalid" /\ stdout[1].doc.id = Null
  /\ tasks[2].line.method = "tools/list" /\ tasks[2].calls > 0
  /\ stdout[2].src = 2 /\ stdout[2].doc.hasResult /\ stdout[2].doc.id = IdOf(2)

\* C2: for a line that is a message without an id, a bridge makes no HTTP
\* request and writes no line, whatever the method.
NotificationSilence ==
  IsBridge =>
    \A i \in TaskIds :
      IsNotification(tasks[i].line) =>
        tasks[i].calls = 0 /\ tasks[i].pc = "done" /\ LinesOf(i) = {}

\* C2 witness: the streamable bridge took a tools/call message without an
\* id, stayed silent, and has answered the request that followed it.
NotificationSilenceWitness ==
  /\ mode = "streamable-bridge" /\ Len(tasks) = 2
  /\ IsNotification(tasks[1].line) /\ tasks[1].line.method = "tools/call"
  /\ IsRequest(tasks[2].line) /\ tasks[2].calls = 1
  /\ LinesOf(1) = {} /\ LinesOf(2) # {}

\* C3: a request that needs the HTTP server never makes more than
\* MAX_RETRY_ATTEMPTS + 1 requests; when all its requests failed it has made
\* exactly that many and has written exactly one line, an error with code
\* -32603, the request's id and the attempt count MAX_RETRY_ATTEMPTS + 1;
\* before that it has written nothing.
RetryExhaustion ==
  IsBridge =>
    \A i \in TaskIds :
      LET t == tasks[i] IN
        NeedsHttp(t.line) =>
          /\ t.calls <= MAX_RETRY_ATTEMPTS + 1
          /\ t.pc # "done" => LinesOf(i) = {}
          /\ (t.pc = "done" /\ t.failed = t.calls) =>
               /\ t.calls = MAX_RETRY_ATTEMPTS + 1
               /\ Cardinality(LinesOf(i)) = 1
               /\ \A k \in LinesOf(i) :
                    /\ stdout[k].doc.hasError /\ ~stdout[k].doc.hasResult
                    /\ stdout[k].doc.code = -32603
                    /\ stdout[k].doc.id = t.line.id
                    /\ stdout[k].doc.n = MAX_RETRY_ATTEMPTS + 1

\* C3 witness: with the largest retry setting a request has failed
\* MaxRetry + 1 times and its error line is written.
RetryExhaustionWitness ==
  /\ IsBridge /\ MAX_RETRY_ATTEMPTS = MaxRetry
  /\ \E i \in TaskIds :
       /\ Exhausted(i) /\ tasks[i].calls = MaxRetry + 1
       /\ \E k \in LinesOf(i) : stdout[k].doc.n = MaxRetry + 1

\* C4: the k-th delay a request sleeps (k = 0 first) is exactly
\* RECONNECT_DELAY * 2^k; one delay lies between consecutive attempts, at
\* most MAX_RETRY_ATTEMPTS in all, and none follows the last failed attempt.
BackoffDoubling ==
  IsBridge =>
    \A i \in TaskIds :
      LET t == tasks[i] IN
        /\ \A k \in 1 .. Len(t.delays) : t.delays[k] = RECONNECT_DELAY * (2 ^ (k - 1))
        /\ Len(t.delays) <= MAX_RETRY_ATTEMPTS
        /\ t.pc = "http" => Len(t.delays) = t.attempt
        /\ t.pc = "sleep" => Len(t.delays) = t.attempt + 1
        /\ Exhausted(i) => Len(t.delays) = MAX_RETRY_ATTEMPTS

\* C4 witness: with a non-default RECONNECT_DELAY a request has slept
\* MaxRetry delays, the last one 2^(MaxRetry-1) times the first, and has
\* then failed for good.
BackoffDoublingWitness ==
  /\ IsBridge /\ RECONNECT_DELAY = ShortDelay /\ MAX_RETRY_ATTEMPTS = MaxRetry
  /\ \E i \in TaskIds :
       /\ Exhausted(i)
       /\ Len(tasks[i].delays) = MaxRetry
       /\ tasks[i].delays[MaxRetry] = ShortDelay * (2 ^ (MaxRetry - 1))

\* A step in which the awaited HTTP request of some task succeeds.
SuccessStep ==
  \E i \in TaskIds :
    /\ tasks[i].pc = "http" /\ tasks'[i].pc = "done"
    /\ tasks'[i].failed = tasks[i].failed

\* C5: every step in which an HTTP request succeeds leaves retryCount at 0,
\* and the first delay any request sleeps is RECONNECT_DELAY, whatever
\* earlier requests went through.
RetryReset ==
  /\ [][SuccessStep => retryCount' = 0]_vars
  /\ [](IsBridge =>
          \A i \in TaskIds :
            Len(tasks[i].delays) >= 1 => tasks[i].delays[1] = RECONNECT_DELAY)

\* C5 witness: the first request succeeded on a retry, retryCount is 0, and
\* the second request has slept its first delay, RECONNECT_DELAY.
RetryResetWitness ==
  /\ IsBridge /\ Len(tasks) = 2 /\ retryCount = 0
  /\ tasks[1].pc = "done" /\ tasks[1].failed >= 1 /\ tasks[1].failed < tasks[1].calls
  /\ tasks[2].calls = 1 /\ tasks[2].failed = 1
  /\ tasks[2].delays = <<RECONNECT_DELAY>>

\* Task i of a bridge has a request in flight.
InFlight(i) == tasks[i].pc \in {"http", "sleep"}

\* C6: while an earlier request of a bridge is awaiting its HTTP reply or
\* sleeping in backoff, every kind of next stdin line can be read, and the
\* HTTP request of any later line can complete and write its reply.
Responsive ==
  (IsBridge /\ ~exited) =>
    \A i \in TaskIds :
      InFlight(i) =>
        /\ (~closed /\ Len(tasks) < MaxLines) => \A sh \in Lines : ENABLED ReadLine(sh)
        /\ \A j \in TaskIds :
             (j > i /\ tasks[j].pc = "http") => ENABLED HttpDone(j, "ok")

\* C6 witness: the second line's request has been made and answered while
\* the first line's request is still sleeping in backoff.
ResponsiveWitness ==
  /\ IsBridge /\ Len(tasks) = 2
  /\ tasks[1].pc = "sleep" /\ LinesOf(1) = {}
  /\ tasks[2].pc = "done" /\ tasks[2].calls = 1 /\ LinesOf(2) # {}

\* C7 (as claimed): once a bridge has ended through its shutdown timer
\* after one request line and the end of input, stdout holds exactly one
\* line for that request.
ReplyBeforeExit ==
  (IsBridge /\ exited /\ closed /\ Len(tasks) = 1 /\ IsRequest(tasks[1].line)) =>
    Cardinality(LinesOf(1)) = 1

\* C7, the failing case reached: input ended after a request, the request
\* failed once and sleeps a backoff that outlasts the grace delay, and the
\* process exited with nothing written.
ReplyLostWitness ==
  /\ IsBridge /\ exited /\ closed /\ exitCode = 0
  /\ Len(tasks) = 1 /\ IsRequest(tasks[1].line)
  /\ tasks[1].pc = "sleep" /\ tasks[1].held
  /\ stdout = <<>>

\* A step that closes the input, and a step that ends the process.
CloseStep == ~closed /\ closed'
\* A bridge's process ends.
ExitStep == IsBridge /\ ~exited /\ exited'

\* C8: the step that closes the input, whether the end of input or a
\* signal, does not end the process: it only sets the shutdown timer to
\* the bridge's fixed delay (100 ms, REST bridge; 1000 ms, streamable
\* bridge) and leaves all requests as they are; while the timer runs an
\* awaited HTTP reply can still be taken and its line written; once the
\* input is closed the process ends only by that timer, with status 0, and
\* it does end (before the input closes it ends only on an uncaught
\* exception, with status 1).
GracefulDrain ==
  /\ [][CloseStep =>
          /\ exitTimer = NoTimer
          /\ exitTimer' = <<IF mode = "rest-bridge" THEN 100 ELSE 1000>>
          /\ UNCHANGED <<exited, exitCode, tasks, stdout, retryCount>>]_vars
  /\ [][ExitStep =>
          \/ closed /\ TimerSet(exitTimer) /\ exitCode' = 0
          \/ /\ ~closed /\ ~closed' /\ exitCode' = 1
             /\ Len(tasks') = Len(tasks) + 1
             /\ Crashes(tasks'[Len(tasks')].line)]_vars
  /\ [](\A i \in TaskIds :
          (IsBridge /\ closed /\ ~exited /\ tasks[i].pc = "http") =>
             ENABLED HttpDone(i, "ok"))
  /\ []((exited /\ closed) => exitCode = 0)
  /\ (closed ~> exited)

\* C8 witness: a signal or the end of input closed the streamable bridge,
\* a request answered during the grace delay has its line, and the process
\* has ended with status 0.
GracefulDrainWitness ==
  /\ mode = "streamable-bridge" /\ closed /\ exited /\ exitCode = 0
  /\ exitTimer = <<STREAMABLE_EXIT_DELAY>>
  /\ Len(tasks) = 2 /\ Len(stdout) = 2

\* The four registered tools.
RegisteredTools ==
  {"search_companies", "get_company_profile", "get_company_officers", "get_company_filings"}

\* A tools/call request that names an unregistered tool.
UnknownToolCall(l) ==
  IsRequest(l) /\ l.method = "tools/call" /\ l.hasParams /\ l.name \notin RegisteredTools

\* The response documents produced for task i, on either channel.
DocsOf(i) ==
  {stdout[k].doc : k \in LinesOf(i)}
    \cup {replies[k].reply.body : k \in {r \in 1 .. Len(replies) : replies[r].src = i}}

UnknownToolCode ==
  mode \in {"stdio", "streamable", "rest-bridge"} =>
    \A i \in TaskIds :
      UnknownToolCall(tasks[i].line) => \A d \in DocsOf(i) : d.code = -32601

\* C10, the failing case reached: the stdio server has answered a call of
\* an unregistered tool with the internal-error code.
UnknownToolCodeWitness ==
  /\ mode = "stdio"
  /\ \E i \in TaskIds :
       /\ UnknownToolCall(tasks[i].line)
       /\ \E d \in DocsOf(i) : d.hasError /\ d.code = -32603

\* C11 (as claimed): for a line that is not JSON a bridge makes no HTTP
\* request and writes exactly one line, an error with id null and the
\* parse-error code -32700.
ParseErrorCode ==
  IsBridge =>
    \A i \in TaskIds :
      tasks[i].line.json = "invalid" =>
        /\ tasks[i].calls = 0
        /\ Cardinality(LinesOf(i)) = 1
        /\ \A k \in LinesOf(i) :
             /\ stdout[k].doc.hasError /\ stdout[k].doc.id = Null
             /\ stdout[k].doc.code = -32700

\* C11, the failing case reached: a bridge has answered a line that is not
\* JSON with the internal-error code, and has gone on to take the next
\* line's request.
ParseErrorCodeWitness ==
  /\ IsBridge /\ Len(tasks) = 2
  /\ tasks[1].line.json = "invalid" /\ tasks[1].calls = 0
  /\ Len(stdout) >= 1 /\ stdout[1].src = 1
  /\ stdout[1].doc.id = Null /\ stdout[1].doc.code = -32603
  /\ IsRequest(tasks[2].line) /\ tasks[2].calls = 1

\* The paths C12 names, and the methods it sets apart.
DispatchModes == {"streamable", "rest-bridge", "streamable-bridge"}
CoreMethods == {"initialize", "tools/list", "tools/call"}
\* Task i has its answer from the process itself or from the server behind
\* it (not from a retry loop that gave up).
Answered(i) == tasks[i].pc = "done" /\ (tasks[i].calls = 0 \/ tasks[i].failed < tasks[i].calls)

\* The response to a request.
IsMethodNotFound(d, l) == d.hasError /\ ~d.hasResult /\ d.code = -32601 /\ d.id = l.id

\* C12 (as claimed): on the Streamable HTTP dispatcher, the REST bridge and
\* the streamable bridge that relays the dispatcher's answer, a request
\* whose method is none of initialize, tools/list, tools/call is answered
\* with an error of code -32601 and the request's id.
OtherMethodNotFound ==
  mode \in DispatchModes =>
    \A i \in TaskIds :
      LET l == tasks[i].line IN
        (IsRequest(l) /\ l.method \notin CoreMethods /\ Answered(i)) =>
          /\ DocsOf(i) # {}
          /\ \A d \in DocsOf(i) : IsMethodNotFound(d, l)

\* C12 (amended): the same, except that the REST bridge answers the method
\* bridge/status itself, with a result under the request's id.
OtherMethodNotFoundButStatus ==
  mode \in DispatchModes =>
    \A i \in TaskIds :
      LET l == tasks[i].line IN
        (IsRequest(l) /\ l.method \notin CoreMethods /\ Answered(i)) =>
          /\ DocsOf(i) # {}
          /\ \A d \in DocsOf(i) :
               IF mode = "rest-bridge" /\ l.method = "bridge/status"
                 THEN d.hasResult /\ ~d.hasError /\ d.id = l.id
                 ELSE IsMethodNotFound(d, l)

\* C12 witness: the REST bridge has answered resources/list with -32601
\* and bridge/status with a result.
OtherMethodNotFoundWitness ==
  /\ mode = "rest-bridge" /\ Len(tasks) = 2 /\ Len(stdout) = 2
  /\ tasks[1].line.method = "resources/list" /\ IsRequest(tasks[1].line)
  /\ stdout[1].doc.code = -32601 /\ stdout[1].doc.id = IdOf(1)
  /\ tasks[2].line.method = "bridge/status" /\ stdout[2].doc.hasResult

\* The HTTP statuses of the replies sent for task i.
StatusesOf(i) ==
  {replies[k].reply.status : k \in {r \in 1 .. Len(replies) : replies[r].src = i}}

\* C13: when the registry call of a registered tool throws, the stdio
\* server and the Streamable HTTP dispatcher answer with exactly one
\* document: an error with code -32603, the request's id and a message
\* that embeds the registry client's error text; the Streamable HTTP reply
\* has status 200.
UpstreamFailureIsInternalError ==
  mode \in ServerModes =>
    \A i \in TaskIds :
      LET l == tasks[i].line IN
        (IsRequest(l) /\ l.method = "tools/call" /\ tasks[i].pc = "done"
           /\ tasks[i].failed = 1) =>
          /\ Cardinality(DocsOf(i)) = 1
          /\ \A d \in DocsOf(i) :
               /\ d.hasError /\ ~d.hasResult
               /\ d.code = -32603 /\ d.id = l.id /\ d.cause = "upstream"
          /\ mode = "streamable" => StatusesOf(i) = {200}

\* C13 witness: the Streamable HTTP server has answered a search whose
\* registry call threw, with status 200 and an error document.
UpstreamFailureWitness ==
  /\ mode = "streamable"
  /\ \E i \in TaskIds :
       /\ tasks[i].line.name = "search_companies" /\ tasks[i].failed = 1
       /\ tasks[i].upcalls = 1 /\ StatusesOf(i) = {200}
       /\ \E d \in DocsOf(i) : d.hasError /\ d.cause = "upstream"

\* The replies sent for task i.
RepliesOf(i) == {k \in 1 .. Len(replies) : replies[k].src = i}
\* A JSON-RPC response envelope: exactly one of result and error.
IsEnvelope(d) == d.hasResult # d.hasError

RouteAlwaysEnvelope ==
  mode = "streamable" =>
    \A k \in 1 .. Len(replies) :
      \/ replies[k].reply.status = 204
      \/ IsEnvelope(replies[k].reply.body)

\* C15, the failing case reached: a body that is no object got the
\* framework's error reply; a tools/call without params got an envelope.
RouteAlwaysEnvelopeWitness ==
  /\ mode = "streamable" /\ Len(replies) = 2
  /\ tasks[1].line.method = "tools/call" /\ ~tasks[1].line.hasParams
  /\ IsRequest(tasks[1].line) /\ IsEnvelope(replies[1].reply.body)
  /\ tasks[2].line.json = "nonobj"
  /\ replies[2].reply.status = 500 /\ ~IsEnvelope(replies[2].reply.body)

\* C16 (as claimed): no line ends a bridge through an uncaught exception:
\* the process never ends with a failure status, and a line of JSON that
\* is no object, like a tools/call without params, gets an error line.
NoLineKillsBridge ==
  IsBridge =>
    /\ exitCode = 0
    /\ \A i \in TaskIds :
         LET l == tasks[i].line IN
           (l.json = "nonobj" \/ (IsRequest(l) /\ l.method = "tools/call" /\ ~l.hasParams
                                   /\ tasks[i].pc = "done")) =>
             \E k \in LinesOf(i) : stdout[k].doc.hasError

\* C16, the failing case reached: the REST bridge read a line of JSON that
\* is no object as its first line and ended with status 1, nothing written.
NoLineKillsBridgeWitness ==
  /\ mode = "rest-bridge" /\ exited /\ exitCode = 1 /\ ~closed
  /\ Len(tasks) = 1 /\ tasks[1].line.json = "nonobj" /\ stdout = <<>>

\* The tools array the documentation gives.
DocumentedTools ==
  << [name |-> "search_companies", required |-> <<"query">>,
      optional |-> {<<"items_per_page", 20>>}],
     [name |-> "get_company_profile", required |-> <<"company_number">>, optional |-> {}],
     [name |-> "get_company_officers", required |-> <<"company_number">>, optional |-> {}],
     [name |-> "get_company_filings", required |-> <<"company_number">>,
      optional |-> {<<"items_per_page", 25>>}] >>

\* C17: every result for a tools/list request, from the stdio server, the
\* Streamable HTTP dispatcher and the facade's GET /tools (read through
\* the bridges), whatever came before it, carries exactly the four
\* documented tools in their order, with their required properties and
\* their defaults.
ToolsListStable ==
  \A i \in TaskIds :
    LET l == tasks[i].line IN
      (IsRequest(l) /\ l.method = "tools/list") =>
        \A d \in DocsOf(i) : d.hasResult => d.tools = DocumentedTools

\* C17 witness: the REST bridge has served a tools/call and then a
\* tools/list, whose result has the four tools.
ToolsListStableWitness ==
  /\ mode = "rest-bridge" /\ Len(tasks) = 2
  /\ tasks[1].line.method = "tools/call" /\ tasks[1].pc = "done" /\ tasks[1].calls >= 1
  /\ tasks[2].line.method = "tools/list"
  /\ \E d \in DocsOf(2) : d.hasResult /\ Len(d.tools) = 4 /\ d.tools = FacadeToolList

\* C18: every line a bridge writes, and every body the Streamable HTTP
\* dispatcher returns for a request, has exactly one of result and error.
ExactlyOneOfResultError ==
  /\ IsBridge => \A k \in 1 .. Len(stdout) : IsEnvelope(stdout[k].doc)
  /\ mode = "streamable" =>
       \A k \in 1 .. Len(replies) :
         IsRequest(tasks[replies[k].src].line) => IsEnvelope(replies[k].reply.body)

\* C18 witness: a bridge has written a result line and an error line.
ExactlyOneOfResultErrorWitness ==
  /\ IsBridge /\ Len(stdout) = 2
  /\ stdout[1].doc.hasResult /\ ~stdout[1].doc.hasError
  /\ stdout[2].doc.hasError /\ ~stdout[2].doc.hasResult

\* C19: a bridge's stdout never holds more than one line for a stdin line,
\* holds none for a message without an id or for a blank line, and every
\* line it holds is a JSON-RPC response document.
OneLinePerRequest ==
  IsBridge =>
    /\ \A i \in TaskIds :
         LET l == tasks[i].line IN
           /\ Cardinality(LinesOf(i)) <= 1
           /\ (IsNotification(l) \/ l.json = "blank") => LinesOf(i) = {}
    /\ \A k \in 1 .. Len(stdout) :
         /\ stdout[k].src \in TaskIds
         /\ stdout[k].doc.hasResult # stdout[k].doc.hasError
         /\ stdout[k].doc.id \in {Null, IdOf(stdout[k].src)}

\* C19 witness: two requests were in flight together and their lines were
\* written in the opposite order, one line each.
OneLinePerRequestWitness ==
  /\ IsBridge /\ Len(tasks) = 2 /\ Len(stdout) = 2
  /\ stdout[1].src = 2 /\ stdout[2].src = 1
  /\ tasks[1].failed >= 1 /\ tasks[2].calls = 1

\* C20: the streamable bridge never writes to standard error, whatever
\* lines it reads and however its HTTP requests fail.
SilentStderr == mode = "streamable-bridge" => ~stderrWritten

\* C20 witness: the streamable bridge has retried a request until it gave
\* up and has served a second one, with standard error untouched.
SilentStderrWitness ==
  /\ mode = "streamable-bridge" /\ ~stderrWritten /\ MAX_RETRY_ATTEMPTS >= 1
  /\ Len(tasks) = 2 /\ Exhausted(1)
  /\ tasks[2].pc = "done" /\ tasks[2].calls = 1 /\ tasks[2].failed = 0

\* The replies written for task i, in order.
ReplySeqOf(i) ==
  LET RECURSIVE Pick(_)
      Pick(k) == IF k = 0 THEN <<>>
                 ELSE IF replies[k].src = i THEN Append(Pick(k - 1), replies[k].reply)
                                            ELSE Pick(k - 1)
  IN  Pick(Len(replies))

\* Task i is a request to the facade's route path.
OnRoute(i, path) == mode = "http" /\ tasks[i].req.path = path

\* C21: the facade's POST /mcp/tools/{toolName} answers a name that is not
\* registered with status 404 and an error body, without running a handler
\* or calling the registry; a registered tool whose handler throws with
\* status 500 and a body carrying the error's message; and otherwise with
\* status 200 and the handler's result.  No reply is written while the
\* handler runs, and exactly one when it is over.
ToolRouteOutcomes ==
  \A i \in TaskIds :
    OnRoute(i, "/mcp/tools/:toolName") =>
      LET t == tasks[i]
          rs == ReplySeqOf(i)
          threw == ~t.req.body.hasArgs \/ t.failed > 0
      IN  /\ t.pc # "done" => rs = <<>>
          /\ t.pc = "done" => Len(rs) = 1
          /\ t.req.name \notin RegisteredTools =>
                /\ t.pc = "done" /\ t.upcalls = 0 /\ t.upreq = NoCall
                /\ rs[1].status = 404 /\ rs[1].body.payload = "error"
          /\ (t.req.name \in RegisteredTools /\ t.pc = "done" /\ threw) =>
                /\ rs[1].status = 500
                /\ rs[1].body.payload = "error" /\ rs[1].body.msg = "handler failed"
                /\ t.failed > 0 => rs[1].body.cause = "upstream"
          /\ (t.req.name \in RegisteredTools /\ t.pc = "done" /\ ~threw) =>
                /\ rs[1].status = 200 /\ rs[1].body.payload = "content"
                /\ t.upcalls = 1

\* C21 witness: the facade has answered a call of an unregistered tool with
\* 404 and then a call of search_companies, whose registry call threw, with
\* 500.
ToolRouteOutcomesWitness ==
  /\ mode = "http" /\ Len(tasks) = 2 /\ Len(replies) = 2
  /\ OnRoute(1, "/mcp/tools/:toolName") /\ tasks[1].req.name = "nope"
  /\ replies[1].reply.status = 404
  /\ OnRoute(2, "/mcp/tools/:toolName") /\ tasks[2].req.name = "search_companies"
  /\ tasks[2].failed = 1 /\ replies[2].reply.status = 500

\* C22: the facade's POST /mcp/bridge answers a request whose method is
\* none of initialize, tools/list, tools/call with an error of code -32601.
BridgeRouteMethodNotFound ==
  \A i \in TaskIds :
    (OnRoute(i, "/mcp/bridge") /\ IsRequest(tasks[i].line)
       /\ tasks[i].line.method \notin CoreMethods /\ tasks[i].pc = "done") =>
      \A k \in RepliesOf(i) : replies[k].reply.body.code = MethodNotFound

\* C22 witness: the facade's bridge route has replied to a resources/list
\* request.
BridgeRouteMethodNotFoundWitness ==
  /\ mode = "http" /\ Len(tasks) = 1 /\ Len(replies) = 1
  /\ OnRoute(1, "/mcp/bridge") /\ IsRequest(tasks[1].line)
  /\ tasks[1].line.method = "resources/list"
  /\ replies[1].reply.status = 500 /\ replies[1].reply.body.code = InternalError

\* C23: the facade's POST /mcp/bridge never answers a message without an
\* id with an error body.
BridgeRouteNotificationNoError ==
  \A i \in TaskIds :
    (OnRoute(i, "/mcp/bridge") /\ IsNotification(tasks[i].line)) =>
      \A k \in RepliesOf(i) :
        /\ replies[k].reply.body.payload # "error"
        /\ ~replies[k].reply.body.hasError

\* C23 witness: the facade's bridge route has replied to the notification
\* notifications/initialized with status 500 and an error body.
BridgeRouteNotificationNoErrorWitness ==
  /\ mode = "http" /\ Len(tasks) = 1 /\ Len(replies) = 1
  /\ OnRoute(1, "/mcp/bridge") /\ IsNotification(tasks[1].line)
  /\ tasks[1].line.method = "notifications/initialized"
  /\ replies[1].reply.status = 500 /\ replies[1].reply.body.payload = "error"

\* C24: when the API key is absent or empty at startup, the entry point of
\* the stdio server and that of the HTTP facade exit with status 1: the
\* server is never constructed, nothing listens, no request is taken and
\* nothing is answered; the exit is the one step the process can take and
\* does take.
StartupRequiresKey ==
  /\ []((mode \in MainModes /\ apiKey \in {"absent", "empty"}) =>
          /\ ~listening
          /\ tasks = <<>> /\ stdout = <<>> /\ replies = <<>>
          /\ exited => exitCode = 1
          /\ ~exited => ENABLED Main(TRUE))
  /\ [][(mode \in MainModes /\ apiKey \in {"absent", "empty"}) =>
          (~exited /\ exited' /\ exitCode' = 1 /\ stderrWritten')]_vars

\* C24 witness: the HTTP facade, started with an empty key, has exited
\* with status 1 without listening.
StartupRequiresKeyWitness ==
  /\ mode = "http" /\ apiKey = "empty"
  /\ exited /\ exitCode = 1 /\ ~listening /\ tasks = <<>>

\* C25: the REST bridge makes for a tools/list request exactly GET /tools,
\* and for a tools/call request exactly POST /mcp/tools/{name} whose body
\* is the arguments alone (no id, no method, no name); when the server
\* answers 2xx it writes one line: a result under the request's id whose
\* content is the HTTP body.
RestMapping ==
  \A i \in TaskIds :
    (mode = "rest-bridge" /\ tasks[i].calls > 0) =>
      LET t == tasks[i]
          l == t.line
      IN  /\ l.method \in {"tools/list", "tools/call"}
          /\ l.method = "tools/list" =>
                /\ t.req.verb = "GET" /\ t.req.path = "/tools"
                /\ t.req.name = NoValue /\ t.req.body = NoBody
          /\ l.method = "tools/call" =>
                /\ t.req.verb = "POST" /\ t.req.path = "/mcp/tools/:toolName"
                /\ t.req.name = l.name
                /\ ~t.req.body.hasId /\ t.req.body.id = Undefined
                /\ t.req.body.method = NoValue /\ t.req.body.name = NoValue
                /\ t.req.body.hasArgs = l.hasArgs /\ t.req.body.items = l.items
          /\ (t.pc = "done" /\ t.failed < t.calls) =>
                LET body == FacadeReplies(t.req, "ok")[1].body IN
                /\ Cardinality(LinesOf(i)) = 1
                /\ \A k \in LinesOf(i) :
                      /\ stdout[k].doc.id = l.id
                      /\ stdout[k].doc.hasResult /\ ~stdout[k].doc.hasError
                      /\ stdout[k].doc.payload = body.payload
                      /\ stdout[k].doc.tools = body.tools

\* C25 witness: the REST bridge has relayed a tools/list request and then a
\* call of search_companies, each answered 2xx at the first attempt.
RestMappingWitness ==
  /\ mode = "rest-bridge" /\ Len(tasks) = 2 /\ Len(stdout) = 2
  /\ tasks[1].line.method = "tools/list" /\ tasks[1].req.path = "/tools"
  /\ tasks[2].line.method = "tools/call" /\ tasks[2].req.name = "search_companies"
  /\ \A i \in 1 .. 2 : tasks[i].pc = "done" /\ tasks[i].calls = 1 /\ tasks[i].failed = 0
  /\ stdout[1].doc.tools = FacadeToolList /\ stdout[2].doc.payload = "content"

\* C26: the streamable bridge answers no request by itself: for every
\* request line, whatever its method, it makes POST / with the line's
\* envelope (same id, method and params) as the body, and the line it
\* writes when the server answers is the server's reply body, unchanged and
\* under the request's id; the one line it composes is the report that
\* every attempt failed.
ForwardUnchanged ==
  \A i \in TaskIds :
    (mode = "streamable-bridge" /\ IsRequest(tasks[i].line)) =>
      LET t == tasks[i]
          l == t.line
      IN  /\ t.calls >= 1
          /\ t.req.verb = "POST" /\ t.req.path = "/" /\ t.req.body = l
          /\ t.pc # "done" => LinesOf(i) = {}
          /\ t.pc = "done" => Cardinality(LinesOf(i)) = 1
          /\ \A k \in LinesOf(i) :
                /\ stdout[k].doc.id = l.id
                /\ IF t.failed < t.calls
                     THEN stdout[k].doc \in {PostRoot(l, up).body : up \in UpOutcomes}
                     ELSE /\ stdout[k].doc.hasError
                          /\ stdout[k].doc.msg = "Streamable server request failed"

\* C26 witness: the streamable bridge has forwarded an initialize request
\* and a tools/call request and written the server's body for each.
ForwardUnchangedWitness ==
  /\ mode = "streamable-bridge" /\ Len(tasks) = 2 /\ Len(stdout) = 2
  /\ tasks[1].line.method = "initialize" /\ tasks[2].line.method = "tools/call"
  /\ \A i \in 1 .. 2 :
       /\ tasks[i].pc = "done" /\ tasks[i].calls = 1 /\ tasks[i].failed = 0
       /\ tasks[i].req.body = tasks[i].line
       /\ \A k \in LinesOf(i) : stdout[k].doc = PostRoot(tasks[i].line, "ok").body

\* What task i's stream route wrote to the raw response, in order.
WritesOf(i) == [k \in 1 .. Len(ReplySeqOf(i)) |-> ReplySeqOf(i)[k].body.payload]
Events == {"event: data", "event: error"}

\* C27: a GET /stream request to the facade writes nothing before its
\* registry call is over, and then exactly one Server-Sent event followed
\* by the end of the stream: a data event when the call succeeded, an error
\* event carrying the error's message when it failed, never both.
OneStreamEvent ==
  \A i \in TaskIds :
    OnRoute(i, "/stream") =>
      LET t == tasks[i]
          w == WritesOf(i)
      IN  /\ t.upcalls = 1
          /\ t.pc # "done" => w = <<>>
          /\ t.pc = "done" =>
                /\ Len(w) = 2 /\ w[1] \in Events /\ w[2] = "end"
                /\ Cardinality({k \in 1 .. Len(w) : w[k] \in Events}) = 1
                /\ t.failed = 0 => w[1] = "event: data"
                /\ t.failed > 0 =>
                      w[1] = "event: error" /\ ReplySeqOf(i)[1].body.cause = "upstream"

\* C27 witness: the facade has streamed a search whose registry call
\* failed and then one whose call succeeded.
OneStreamEventWitness ==
  /\ mode = "http" /\ Len(tasks) = 2 /\ Len(replies) = 4
  /\ OnRoute(1, "/stream") /\ OnRoute(2, "/stream")
  /\ tasks[1].pc = "done" /\ tasks[1].failed = 1
  /\ tasks[2].pc = "done" /\ tasks[2].failed = 0
  /\ WritesOf(1) = <<"event: error", "end">> /\ WritesOf(2) = <<"event: data", "end">>

\* C28: on the stdio server, the Streamable HTTP dispatcher and the facade,
\* a tool invocation makes exactly one registry GET and a message that
\* invokes no tool makes none; a GET that fails is not repeated: the
\* invocation ends with that one GET made, and what is answered for it
\* carries the registry client's error text.
OneUpstreamGet ==
  \A i \in TaskIds :
    ~IsBridge =>
      LET t == tasks[i] IN
      /\ t.upcalls = (IF t.upreq = NoCall THEN 0 ELSE 1)
      /\ t.pc = "upstream" => t.upreq # NoCall
      /\ t.failed > 0 =>
            /\ t.pc = "done" /\ t.upcalls = 1
            /\ \E d \in DocsOf(i) : d.cause = "upstream"
            /\ \A d \in DocsOf(i) : d.payload # "end" => d.cause = "upstream"

\* C28 witness: a registry GET of the stdio server has failed and one of
\* its GETs has succeeded, each made once.
OneUpstreamGetWitness ==
  /\ mode = "stdio" /\ Len(tasks) = 2 /\ Len(stdout) = 2
  /\ tasks[1].failed = 1 /\ tasks[1].upcalls = 1 /\ tasks[1].pc = "done"
  /\ tasks[2].failed = 0 /\ tasks[2].upcalls = 1 /\ tasks[2].pc = "done"
  /\ \A k \in LinesOf(1) : stdout[k].doc.cause = "upstream"

\* The items_per_page the caller of task i put into the tool's arguments
\* (<<>> when omitted), and the tool it named.
GivenItems(i) == tasks[i].line.items
NamedTool(i) ==
  IF OnRoute(i, "/mcp/tools/:toolName") THEN tasks[i].req.name ELSE tasks[i].line.name

\* C29: on the stdio server, the Streamable HTTP dispatcher and the
\* facade's tool handlers alike, the registry call of search_companies is
\* given 20 and that of get_company_filings 25 when the arguments omit
\* items_per_page, and the supplied value when they have one.
ItemsPerPageDefault ==
  \A i \in TaskIds :
    (~IsBridge /\ ~OnRoute(i, "/stream") /\ tasks[i].upreq # NoCall) =>
      LET c == tasks[i].upreq IN
      /\ c.op = NamedTool(i)
      /\ c.op = "search_companies" =>
            c.items = (IF GivenItems(i) = <<>> THEN <<20>> ELSE GivenItems(i))
      /\ c.op = "get_company_filings" =>
            c.items = (IF GivenItems(i) = <<>> THEN <<25>> ELSE GivenItems(i))
      /\ c.op \notin {"search_companies", "get_company_filings"} => c.items = <<>>

\* C29 witness: the facade has called the registry for get_company_filings
\* without items_per_page, with 25, and for search_companies with
\* items_per_page 7, with 7.
ItemsPerPageDefaultWitness ==
  /\ mode = "http" /\ Len(tasks) = 2
  /\ OnRoute(1, "/mcp/tools/:toolName") /\ OnRoute(2, "/mcp/tools/:toolName")
  /\ tasks[1].req.name = "get_company_filings" /\ GivenItems(1) = <<>>
  /\ tasks[1].upreq.items = <<25>>
  /\ tasks[2].req.name = "search_companies" /\ GivenItems(2) = <<7>>
  /\ tasks[2].upreq.items = <<7>>

\* A bridge takes a stdin line.
LineStep == IsBridge /\ Len(tasks') = Len(tasks) + 1

\* C30: a bridge starts its lines in arrival order: the step that takes a
\* line leaves the earlier lines' tasks as they are and, within that step,
\* issues the line's first HTTP request or writes its local reply, so that
\* every line taken has started before the next is read; the replies are
\* not held to that order: while two requests await their HTTP replies,
\* the later one's reply can be taken and written first.
ArrivalOrderStart ==
  /\ [][LineStep =>
          LET i == Len(tasks')
              t == tasks'[i]
          IN  /\ SubSeq(tasks', 1, Len(tasks)) = tasks
              /\ IF NeedsHttp(t.line)
                   THEN t.pc = "http" /\ t.calls = 1 /\ t.attempt = 0 /\ stdout' = stdout
                   ELSE /\ t.pc = "done" /\ t.calls = 0
                        /\ stdout' = stdout \o Outs(i, BridgeLocal(t.line))]_vars
  /\ [](IsBridge =>
          \A i \in TaskIds :
            /\ NeedsHttp(tasks[i].line) => tasks[i].calls >= 1
            /\ \A j \in TaskIds :
                  (i < j /\ ~exited /\ tasks[i].pc = "http" /\ tasks[j].pc = "http") =>
                     ENABLED HttpDone(j, "ok"))

\* C30 witness: a bridge has read two requests, each answered at its first
\* attempt, and the second one's line was written before the first one's.
ArrivalOrderStartWitness ==
  /\ IsBridge /\ Len(tasks) = 2 /\ Len(stdout) = 2
  /\ \A i \in 1 .. 2 : tasks[i].pc = "done" /\ tasks[i].calls = 1 /\ tasks[i].failed = 0
  /\ stdout[1].src = 2 /\ stdout[2].src = 1

\* C31: the timeout of each HTTP request of the REST bridge is the value of
\* MCP_HTTP_TIMEOUT, and 5000 ms when the variable is not set.
TimeoutFollowsEnvironment ==
  mode = "rest-bridge" =>
    HttpClientTimeout = (IF MCP_HTTP_TIMEOUT = Unset THEN 5000 ELSE MCP_HTTP_TIMEOUT[1])

\* C31, the failing case reached: with MCP_HTTP_TIMEOUT set to 10000 the
\* REST bridge has made an HTTP request that failed and was answered for,
\* under the client's timeout of 5000 ms.
TimeoutFollowsEnvironmentWitness ==
  /\ mode = "rest-bridge" /\ MCP_HTTP_TIMEOUT = <<LongTimeout>>
  /\ HttpClientTimeout = 5000
  /\ Len(tasks) = 1 /\ tasks[1].line.method = "tools/list"
  /\ tasks[1].pc = "done" /\ tasks[1].calls = 1 /\ tasks[1].failed = 1
  /\ MAX_RETRY_ATTEMPTS = 0

\* The full backoff schedule of a request that has failed n times.
Schedule(n) == [k \in 1 .. n |-> RECONNECT_DELAY * (2 ^ (k - 1))]

\* C32: a bridge request's retries are its own: a step of another request
\* (a failure, or a success that writes retryCount) leaves its attempt
\* index, its delays and its attempt count as they are; when its own HTTP
\* request fails it retries exactly when its own attempt index is below
\* MAX_RETRY_ATTEMPTS and then sleeps RECONNECT_DELAY * 2^attempt; so its
\* delays are always the schedule of its own failures, and it gives up
\* after MAX_RETRY_ATTEMPTS + 1 attempts of its own.
RetriesPerRequest ==
  /\ [][IsBridge =>
          \A i \in TaskIds :
            LET t == tasks[i]
                u == tasks'[i]
            IN  /\ (\E j \in 1 .. Len(tasks') :
                       j # i /\ (j > Len(tasks) \/ tasks'[j] # tasks[j])) => u = t
                /\ (t.pc = "http" /\ u.failed = t.failed + 1) =>
                      IF t.attempt < MAX_RETRY_ATTEMPTS
                        THEN /\ u.pc = "sleep"
                             /\ u.delays = Append(t.delays, RECONNECT_DELAY * (2 ^ t.attempt))
                        ELSE u.pc = "done" /\ u.delays = t.delays]_vars
  /\ [](IsBridge =>
          \A i \in TaskIds :
            /\ tasks[i].delays = Schedule(Len(tasks[i].delays))
            /\ tasks[i].calls <= MAX_RETRY_ATTEMPTS + 1
            /\ Exhausted(i) =>
                  /\ tasks[i].calls = MAX_RETRY_ATTEMPTS + 1
                  /\ Len(tasks[i].delays) = MAX_RETRY_ATTEMPTS)

\* C32 witness: while the first request was retrying, the second one
\* succeeded at its first attempt (resetting retryCount) and was answered
\* first; the first one went on through its whole schedule and gave up.
RetriesPerRequestWitness ==
  /\ IsBridge /\ MAX_RETRY_ATTEMPTS = MaxRetry /\ Len(tasks) = 2 /\ Len(stdout) = 2
  /\ Exhausted(1) /\ tasks[1].calls = MaxRetry + 1
  /\ tasks[1].delays = Schedule(MaxRetry)
  /\ tasks[2].pc = "done" /\ tasks[2].calls = 1 /\ tasks[2].failed = 0
  /\ stdout[1].src = 2 /\ stdout[2].src = 1

\* The registry's answer to task i of a server, once the task is over.
OutcomeOf(i) == IF tasks[i].failed > 0 THEN "fail" ELSE "ok"
\* A message and a reply with the id left out.
Unnumbered(m) == [m EXCEPT !.id = Undefined]
WithoutId(r) == [r EXCEPT !.body.id = Undefined]

\* C33: the Streamable HTTP dispatcher keeps no state between messages:
\* the one reply to a message is the reply the route gives that message
\* and the registry's answer alone, whatever was received before it (an
\* initialize, a notification, or nothing); two messages that differ in
\* their id only and get the same registry answer get replies that differ
\* in the id only; and taking a message leaves the earlier messages and
\* their replies as they are.
DispatcherStateless ==
  /\ [](mode = "streamable" =>
          \A i \in TaskIds :
            /\ tasks[i].pc = "done" => ReplySeqOf(i) = <<PostRoot(tasks[i].line, OutcomeOf(i))>>
            /\ \A j \in TaskIds :
                  (/\ tasks[i].pc = "done" /\ tasks[j].pc = "done"
                   /\ Unnumbered(tasks[i].line) = Unnumbered(tasks[j].line)
                   /\ OutcomeOf(i) = OutcomeOf(j)) =>
                     WithoutId(ReplySeqOf(i)[1]) = WithoutId(ReplySeqOf(j)[1]))
  /\ [][mode = "streamable" =>
          /\ Len(tasks') >= Len(tasks)
          /\ \A k \in TaskIds :
                /\ tasks'[k].line = tasks[k].line /\ tasks'[k].upreq = tasks[k].upreq
                /\ tasks[k].pc = "done" => tasks'[k] = tasks[k]
          /\ SubSeq(replies', 1, Len(replies)) = replies
          /\ UNCHANGED <<config, retryCount, closed, exitTimer, exited, exitCode, listening>>]_vars

\* C33 witness: the dispatcher has served a tools/call after
\* notifications/cancelled exactly as it serves it alone.
DispatcherStatelessWitness ==
  /\ mode = "streamable" /\ Len(tasks) = 2 /\ Len(replies) = 2
  /\ tasks[1].line.method = "notifications/cancelled"
  /\ tasks[2].line.method = "tools/call" /\ tasks[2].line.name = "search_companies"
  /\ tasks[2].pc = "done" /\ tasks[2].upcalls = 1 /\ tasks[2].failed = 0
  /\ replies[2].reply = PostRoot(tasks[2].line, "ok")
  /\ replies[2].reply.body.hasResult

\* C34: in both bridges retryCount is 0 in every reachable state, through
\* failures, backoff and successes alike, and every answer of the REST
\* bridge to bridge/status states the retry count 0.
RetryCountZero ==
  IsBridge =>
    /\ retryCount = 0
    /\ \A k \in 1 .. Len(stdout) :
         tasks[stdout[k].src].line.method = "bridge/status" =>
           (stdout[k].doc.hasResult => stdout[k].doc.n = 0)

\* C34 witness: while the REST bridge's first request is in backoff after
\* a failed attempt, bridge/status has been answered with retry count 0.
RetryCountZeroWitness ==
  /\ mode = "rest-bridge" /\ Len(tasks) = 2 /\ Len(stdout) = 1
  /\ tasks[1].pc = "sleep" /\ tasks[1].failed >= 1
  /\ tasks[2].line.method = "bridge/status" /\ IsRequest(tasks[2].line)
  /\ stdout[1].src = 2 /\ stdout[1].doc.payload = "status" /\ stdout[1].doc.n = 0
  /\ retryCount = 0

\* Task i's HTTP request has been answered 2xx (at its latest attempt).
Succeeded(i) == tasks[i].calls > 0 /\ tasks[i].failed < tasks[i].calls /\ LinesOf(i) # {}

\* C35: when a bridge's HTTP request is answered 2xx at attempt k, the
\* request is over with exactly k + 1 attempts made and k delays slept; it
\* has exactly one line, the reply's content (a result in the REST bridge,
\* the server's own document in the streamable bridge) and none of the
\* bridge's failure reports; and nothing more happens for it: no further
\* attempt, no further line.
SuccessEndsRetries ==
  /\ [](IsBridge =>
          \A i \in TaskIds :
            Succeeded(i) =>
              LET t == tasks[i] IN
              /\ t.pc = "done"
              /\ t.calls = t.attempt + 1 /\ t.failed = t.attempt
              /\ Len(t.delays) = t.attempt
              /\ t.attempt <= MAX_RETRY_ATTEMPTS
              /\ Cardinality(LinesOf(i)) = 1
              /\ \A k \in LinesOf(i) :
                    /\ stdout[k].doc.msg # FailurePrefix(t.line)
                    /\ mode = "rest-bridge" =>
                          stdout[k].doc.hasResult /\ ~stdout[k].doc.hasError
                    /\ mode = "streamable-bridge" =>
                          stdout[k].doc \in {PostRoot(t.line, up).body : up \in UpOutcomes})
  /\ [][IsBridge =>
          \A i \in TaskIds :
            Succeeded(i) =>
              /\ tasks'[i] = tasks[i]
              /\ \A k \in 1 .. Len(stdout') : stdout'[k].src = i => k \in LinesOf(i)]_vars

\* C35 witness: a request was answered 2xx at its last attempt, the
\* MaxRetry-th retry, and has its one result line.
SuccessEndsRetriesWitness ==
  /\ IsBridge /\ MAX_RETRY_ATTEMPTS = MaxRetry /\ Len(tasks) = 1 /\ Len(stdout) = 1
  /\ tasks[1].pc = "done" /\ tasks[1].attempt = MaxRetry
  /\ tasks[1].calls = MaxRetry + 1 /\ tasks[1].failed = MaxRetry
  /\ stdout[1].doc.hasResult /\ stdout[1].doc.id = tasks[1].line.id

\* C36: for every integer MAX_RETRY_ATTEMPTS, zero and negative ones
\* included, a request line that needs the HTTP server gets at least one
\* HTTP request and, when it is over, exactly one line that is a JSON-RPC
\* response with the request's id; with MAX_RETRY_ATTEMPTS = 0 it gets one
\* request only and sleeps no delay.
AlwaysOneAttempt ==
  IsBridge =>
    \A i \in TaskIds :
      NeedsHttp(tasks[i].line) =>
        LET t == tasks[i] IN
        /\ t.calls >= 1
        /\ t.pc = "done" =>
              /\ Cardinality(LinesOf(i)) = 1
              /\ \A k \in LinesOf(i) :
                    IsEnvelope(stdout[k].doc) /\ stdout[k].doc.id = t.line.id
        /\ MAX_RETRY_ATTEMPTS = 0 => t.calls = 1 /\ t.delays = <<>>

\* C36, the failing case reached: with MAX_RETRY_ATTEMPTS = -1 the
\* streamable bridge has finished a request without any HTTP request and
\* printed the line "undefined".
AlwaysOneAttemptWitness ==
  /\ mode = "streamable-bridge" /\ MAX_RETRY_ATTEMPTS = -1
  /\ Len(tasks) = 1 /\ IsRequest(tasks[1].line) /\ tasks[1].line.method = "tools/list"
  /\ tasks[1].pc = "done" /\ tasks[1].calls = 0
  /\ Len(stdout) = 1 /\ stdout[1].doc = UndefinedLine

\* The methods the REST bridge serves by itself.
LocalMethods == {"initialize", "bridge/status"}
IsLocal(l) == IsRequest(l) /\ l.method \in LocalMethods

\* C37: the REST bridge answers an initialize or bridge/status request in
\* the step that reads it: it makes no HTTP request for it, then or later,
\* writes one result under the request's id whatever becomes of the HTTP
\* server, and leaves retryCount and every other request as they are.
LocalAnswers ==
  /\ [][(mode = "rest-bridge" /\ LineStep /\ IsLocal(tasks'[Len(tasks')].line)) =>
          LET i == Len(tasks')
              l == tasks'[i].line
          IN  /\ SubSeq(tasks', 1, Len(tasks)) = tasks
              /\ tasks'[i].pc = "done" /\ tasks'[i].calls = 0 /\ tasks'[i].req = NoRequest
              /\ retryCount' = retryCount
              /\ Len(stdout') = Len(stdout) + 1
              /\ SubSeq(stdout', 1, Len(stdout)) = stdout
              /\ stdout'[Len(stdout')].src = i
              /\ stdout'[Len(stdout')].doc.hasResult /\ ~stdout'[Len(stdout')].doc.hasError
              /\ stdout'[Len(stdout')].doc.id = l.id]_vars
  /\ [](mode = "rest-bridge" =>
          \A i \in TaskIds :
            IsLocal(tasks[i].line) =>
              /\ tasks[i].pc = "done" /\ tasks[i].calls = 0 /\ tasks[i].upcalls = 0
              /\ Cardinality(LinesOf(i)) = 1
              /\ \A k \in LinesOf(i) :
                    stdout[k].doc.payload =
                      (IF tasks[i].line.method = "initialize" THEN "serverInfo" ELSE "status"))

\* C37 witness: with the HTTP server out of reach (the first request has
\* failed and is being tried again) the REST bridge has answered
\* initialize with a result.
LocalAnswersWitness ==
  /\ mode = "rest-bridge" /\ Len(tasks) = 2 /\ Len(stdout) = 1
  /\ tasks[1].pc = "http" /\ tasks[1].failed >= 1
  /\ tasks[2].line.method = "initialize" /\ IsRequest(tasks[2].line)
  /\ tasks[2].calls = 0
  /\ stdout[1].src = 2 /\ stdout[1].doc.hasResult /\ stdout[1].doc.payload = "serverInfo"

\* C38: the bridges differ in what they try again.  In the streamable
\* bridge any answer of the server to a request (a result, or a JSON-RPC
\* error for an unknown method, an unknown tool or a failed handler, all
\* sent with status 200) ends the request: the answer is printed and no
\* further POST is made, so the registry is called at most once for it.
\* In the REST bridge an answer of the facade with status 404 or 500 is a
\* failed attempt like any other: the call is repeated while attempts are
\* left and the handler runs again each time; a request that gives up has
\* made MAX_RETRY_ATTEMPTS + 1 calls and has one error line.
RetryDifference ==
  /\ [][\A i \in TaskIds, out \in UpOutcomes :
          (mode = "streamable-bridge" /\ HttpDone(i, out)) =>
             /\ tasks'[i].pc = "done"
             /\ tasks'[i].calls = tasks[i].calls /\ tasks'[i].failed = tasks[i].failed
             /\ stdout' = Append(stdout, Out(i, PostRoot(tasks[i].line, out).body))]_vars
  /\ [][\A i \in TaskIds, out \in UpOutcomes :
          (/\ mode = "rest-bridge" /\ HttpDone(i, out)
           /\ FacadeReplies(tasks[i].req, out)[1].status \in {404, 500}) =>
             /\ tasks'[i].failed = tasks[i].failed + 1
             /\ tasks'[i].upcalls = tasks[i].upcalls +
                   (IF FacadeReplies(tasks[i].req, out)[1].status = 500
                       /\ tasks[i].req.body.hasArgs THEN 1 ELSE 0)
             /\ IF tasks[i].attempt < MAX_RETRY_ATTEMPTS
                  THEN tasks'[i].pc = "sleep" /\ stdout' = stdout
                  ELSE /\ tasks'[i].pc = "done"
                       /\ Len(stdout') = Len(stdout) + 1
                       /\ stdout'[Len(stdout')].doc.hasError
                       /\ stdout'[Len(stdout')].doc.n = MAX_RETRY_ATTEMPTS + 1]_vars
  /\ [](\A i \in TaskIds :
          /\ mode = "streamable-bridge" =>
                /\ tasks[i].upcalls <= 1
                /\ tasks[i].upcalls = 1 => tasks[i].pc = "done"
          /\ mode = "rest-bridge" =>
                /\ tasks[i].upcalls <= tasks[i].calls
                /\ (UnknownToolCall(tasks[i].line) /\ tasks[i].pc = "done") => Exhausted(i)
                /\ Exhausted(i) =>
                      /\ tasks[i].calls = MAX_RETRY_ATTEMPTS + 1
                      /\ Cardinality(LinesOf(i)) = 1
                      /\ \A k \in LinesOf(i) : stdout[k].doc.hasError)

\* C38 witness: behind the REST bridge the handler of search_companies has
\* failed at every attempt: it ran MaxRetry + 1 times before the one error
\* line.
RetryDifferenceWitness ==
  /\ mode = "rest-bridge" /\ MAX_RETRY_ATTEMPTS = MaxRetry
  /\ Len(tasks) = 1 /\ Len(stdout) = 1
  /\ tasks[1].line.method = "tools/call" /\ tasks[1].line.name = "search_companies"
  /\ Exhausted(1) /\ tasks[1].calls = MaxRetry + 1 /\ tasks[1].upcalls = MaxRetry + 1
  /\ stdout[1].doc.hasError

\* The names a tools/list array advertises.
Names(list) == {list[k].name : k \in DOMAIN list}
\* The names the running server advertises.
Advertised ==
  CASE mode = "stdio" -> Names(StdioToolList)
    [] mode = "streamable" -> Names(StreamableToolList)
    [] OTHER -> Names(FacadeToolList)
\* Task i is a call of a tool, with arguments, to a server.
IsToolCall(i) ==
  \/ OnRoute(i, "/mcp/tools/:toolName") /\ tasks[i].req.body.hasArgs
  \/ /\ mode \in ServerModes \/ OnRoute(i, "/mcp/bridge")
     /\ IsRequest(tasks[i].line) /\ tasks[i].line.method = "tools/call"
     /\ tasks[i].line.hasParams /\ tasks[i].line.hasArgs

\* C39: on the stdio server, the Streamable HTTP dispatcher and the
\* facade, the names dispatched to a handler are the names tools/list
\* advertises: the two sets are equal, a call of an advertised tool runs
\* that tool's handler (it reaches the registry call of that name), and a
\* call of any other name runs no handler.
ListedEqualsDispatched ==
  /\ Names(StdioToolList) = StdioCases
  /\ Names(StreamableToolList) = StreamableCases
  /\ Names(FacadeToolList) = toolHandlers
  /\ \A i \in TaskIds :
       (~IsBridge /\ IsToolCall(i)) =>
         IF NamedTool(i) \in Advertised
           THEN tasks[i].upcalls = 1 /\ tasks[i].upreq.op = NamedTool(i)
           ELSE tasks[i].upcalls = 0 /\ tasks[i].upreq = NoCall /\ tasks[i].pc = "done"

\* C39 witness: the facade has run the handler of get_company_officers,
\* which it advertises, and has run none for a name it does not.
ListedEqualsDispatchedWitness ==
  /\ mode = "http" /\ Len(tasks) = 2 /\ Len(replies) = 2
  /\ IsToolCall(1) /\ NamedTool(1) = "get_company_officers"
  /\ tasks[1].pc = "done" /\ tasks[1].upreq.op = "get_company_officers"
  /\ replies[1].reply.status = 200
  /\ IsToolCall(2) /\ NamedTool(2) = "nope" /\ tasks[2].upcalls = 0

====
